---- MODULE Spec2Model ----
(***************************************************************************)
(* Model of the generation-request orchestration core of tg-bawer:         *)
(* the per-user backend services table, the media-group cache, the live    *)
(* retry loop of the message handlers and the failed-generation queue      *)
(* with its background scheduler.                                          *)
(*                                                                         *)
(* Time is counted in minutes.  Network operations (provider calls,        *)
(* downloads, chat sends) and store writes may fail; every such outcome    *)
(* is an input of the action that performs the operation.                  *)
(***************************************************************************)
EXTENDS Integers, Sequences, FiniteSets, TLC

\* ---------------------------------------------------------------- bounds
MaxServices == 3
MaxRequests == 2
MaxLive == 1
MaxTicks == 2
MaxTime == 16
MaxClock == 2
MaxAppends == 3
MaxCalls == 2
MaxRetryCount == 2
MaxPrompts == 3
MaxCallbacks == 2

\* ------------------------------------------------------ program constants
RetryBudget == 6
SnapshotDelay == 500
SweepPeriod == 5
EvictAge == 10
LogPrefixLen == 20

Users == {1, 2}

VARIABLES
    now,                \* wall clock, minutes
    user_services,      \* rows of table user_services
    nextServiceID,      \* AUTOINCREMENT counter of user_services
    user_settings,      \* rows of table user_settings: user -> default_quality
    failed_generations, \* rows of table failed_generations
    nextTaskID,         \* AUTOINCREMENT counter of failed_generations
    groups,             \* mediaGroups.groups: MediaGroupID -> cached images
    nextSweep,          \* time of the next tick of the cleanup ticker
    appends,            \* number of cacheMediaGroupImage calls made so far
    arrived,            \* MediaGroupID -> file IDs appended since the group was created
    panicked,           \* the process died of a runtime panic
    probe,              \* arguments of the function under study
    answer,             \* what its calls returned, in call order
    reqs,               \* live handler goroutines: request id -> handler state
    ticks,              \* scheduler ticks taken so far
    replay,             \* what the last scheduler tick did
    sent,               \* task id -> what the scheduler did for the task so far
    config,             \* config.Config: the environment fallback key
    mu,                 \* mediaGroups.mu: the writer and the readers holding it
    callers,            \* goroutines calling the media-group table: id -> position
    saved_prompts,      \* rows of table saved_prompts
    callbacks           \* handleCallback goroutines: id -> position

svcVars == <<user_services, nextServiceID>>
queueVars == <<failed_generations, nextTaskID, ticks, replay, sent>>
mediaVars == <<groups, nextSweep, appends, arrived, panicked>>
probeVars == <<probe, answer>>
lockVars == <<mu, callers>>
promptVars == <<saved_prompts, callbacks>>
vars == <<now, user_services, nextServiceID, user_settings, failed_generations,
          nextTaskID, groups, nextSweep, appends, arrived, panicked, probe, answer,
          reqs, ticks, replay, sent, config, mu, callers, saved_prompts, callbacks>>

\* ------------------------------------------------------------ gemini client
ServiceTypeStandard == "standard"
ServiceTypeCustom == "custom"
ServiceTypeVertex == "vertex"

\* Base URLs are kept by what buildGenerateURL does with them: the empty
\* string, a plain base, a full endpoint (it contains ":generateContent"),
\* and a string url.Parse rejects (an invalid escape such as "%zz").
PlainBaseURL == "https://proxy.example"
FullEndpointURL == "https://proxy.example/x:generateContent"
BadBaseURL == "%zz"
DefaultGeminiBaseURL == "https://generativelanguage.googleapis.com"
DefaultVertexBaseURL == "https://aiplatform.googleapis.com"
DefaultImageModel == "gemini-3-pro-image-preview"

EmptyServiceConfig ==
    [Type |-> "", Name |-> "", APIKey |-> "", BaseURL |-> "",
     ProjectID |-> "", Location |-> "", Model |-> ""]

normalizeServiceType(serviceType) ==
    CASE serviceType \in {"", "gemini", "standard", "origin", "original"} -> ServiceTypeStandard
      [] serviceType = ServiceTypeCustom -> ServiceTypeCustom
      [] serviceType \in {ServiceTypeVertex, "gcp"} -> ServiceTypeVertex
      [] OTHER -> ServiceTypeStandard

\* url.Parse followed by setting the key query parameter.
appendAPIKey(rawURL, apiKey) ==
    IF rawURL[1] = BadBaseURL
    THEN [ok |-> FALSE, err |-> "invalid URL escape", url |-> <<>>]
    ELSE [ok |-> TRUE, err |-> "", url |-> rawURL \o <<"key", apiKey>>]

\* Variant of the endpoint construction that builds the Vertex path without
\* looking at the project and the location.
buildGenerateURL_NoProjectCheck(service) ==
    LET serviceType == normalizeServiceType(service.Type)
        clientBase == IF service.BaseURL = ""
                      THEN (IF serviceType = ServiceTypeVertex
                            THEN DefaultVertexBaseURL ELSE DefaultGeminiBaseURL)
                      ELSE service.BaseURL
        model == IF service.Model = "" THEN DefaultImageModel ELSE service.Model
    IN  IF service.APIKey = ""
        THEN [ok |-> FALSE, err |-> "service api key is empty", url |-> <<>>]
        ELSE IF clientBase = FullEndpointURL
        THEN appendAPIKey(<<clientBase>>, service.APIKey)
        ELSE IF serviceType = ServiceTypeVertex
        THEN appendAPIKey(<<clientBase, "v1", "projects", service.ProjectID,
                            "locations", service.Location,
                            "publishers", "google", "models", model>>,
                          service.APIKey)
        ELSE appendAPIKey(<<clientBase, "v1beta", "models", model>>, service.APIKey)

\* NewClientWithService followed by Client.buildGenerateURL(c.imageModel).
buildGenerateURL(service) ==
    LET serviceType == normalizeServiceType(service.Type)
        clientBase == IF service.BaseURL = ""
                      THEN (IF serviceType = ServiceTypeVertex
                            THEN DefaultVertexBaseURL ELSE DefaultGeminiBaseURL)
                      ELSE service.BaseURL
        model == IF service.Model = "" THEN DefaultImageModel ELSE service.Model
    IN  IF service.APIKey = ""
        THEN [ok |-> FALSE, err |-> "service api key is empty", url |-> <<>>]
        ELSE IF clientBase = FullEndpointURL
        THEN appendAPIKey(<<clientBase>>, service.APIKey)
        ELSE IF serviceType = ServiceTypeVertex
        THEN IF service.ProjectID = "" \/ service.Location = ""
             THEN [ok |-> FALSE, err |-> "vertex missing project_id or location", url |-> <<>>]
             ELSE appendAPIKey(<<clientBase, "v1", "projects", service.ProjectID,
                                 "locations", service.Location,
                                 "publishers", "google", "models", model>>,
                               service.APIKey)
        ELSE appendAPIKey(<<clientBase, "v1beta", "models", model>>, service.APIKey)

\* ------------------------------------------------------ table user_services
UserRows(rows, userID) == {s \in rows : s.UserID = userID}

ClearDefaults(rows, userID) ==
    {IF s.UserID = userID THEN [s EXCEPT !.IsDefault = FALSE] ELSE s : s \in rows}

SetDefaultByID(rows, id) ==
    {IF s.ID = id THEN [s EXCEPT !.IsDefault = TRUE] ELSE s : s \in rows}

\* The rows a "ORDER BY created_at DESC LIMIT 1" query may return.
MostRecent(rows) == {s \in rows : \A t \in rows : t.CreatedAt <= s.CreatedAt}

\* Variant of the add transaction that never clears the old default.
AddUserServiceTx_KeepDefaults(rows, id, userID, cfg, setAsDefault, createdAt) ==
    rows \cup {[ID |-> id, UserID |-> userID, Name |-> cfg.Name, Type |-> cfg.Type,
                APIKey |-> cfg.APIKey, BaseURL |-> cfg.BaseURL,
                ProjectID |-> cfg.ProjectID, Location |-> cfg.Location,
                Model |-> cfg.Model,
                IsDefault |-> setAsDefault \/ UserRows(rows, userID) = {},
                CreatedAt |-> createdAt]}

\* The transaction of Database.AddUserService, committed.
AddUserServiceTx(rows, id, userID, cfg, setAsDefault, createdAt) ==
    LET cleared == IF setAsDefault THEN ClearDefaults(rows, userID) ELSE rows
        row == [ID |-> id, UserID |-> userID, Name |-> cfg.Name, Type |-> cfg.Type,
                APIKey |-> cfg.APIKey, BaseURL |-> cfg.BaseURL,
                ProjectID |-> cfg.ProjectID, Location |-> cfg.Location,
                Model |-> cfg.Model, IsDefault |-> setAsDefault,
                CreatedAt |-> createdAt]
        inserted == cleared \cup {row}
        total == Cardinality(UserRows(inserted, userID))
    IN  IF ~setAsDefault /\ total = 1
        THEN SetDefaultByID(inserted, id)
        ELSE inserted

\* Database.AddUserService: dbOK = FALSE is a failed statement or commit,
\* which rolls the transaction back; so does a UNIQUE(user_id, name) clash.
AddUserService(userID, cfg, setAsDefault, dbOK) ==
    /\ nextServiceID <= MaxServices
    /\ IF dbOK /\ ~\E s \in UserRows(user_services, userID) : s.Name = cfg.Name
       THEN /\ user_services' = AddUserServiceTx(user_services, nextServiceID, userID,
                                                 cfg, setAsDefault, now)
            /\ nextServiceID' = nextServiceID + 1
       ELSE UNCHANGED svcVars
    /\ UNCHANGED <<probeVars, lockVars, now, config, promptVars, user_settings, queueVars, mediaVars, reqs>>

\* The transaction of Database.SetDefaultUserService; RowsAffected = 0 is
\* sql.ErrNoRows and the deferred rollback.
SetDefaultUserServiceTx(rows, userID, serviceID) ==
    IF \E s \in UserRows(rows, userID) : s.ID = serviceID
    THEN SetDefaultByID(ClearDefaults(rows, userID), serviceID)
    ELSE rows

SetDefaultUserService(userID, serviceID, dbOK) ==
    /\ user_services' = IF dbOK
                        THEN SetDefaultUserServiceTx(user_services, userID, serviceID)
                        ELSE user_services
    /\ UNCHANGED <<probeVars, lockVars, now, config, promptVars, nextServiceID, user_settings, queueVars, mediaVars, reqs>>

\* Variant of the delete transaction without the promotion of a new default.
DeleteUserServiceTx_NoPromote(rows, userID, serviceID, nextID) ==
    rows \ {s \in UserRows(rows, userID) : s.ID = serviceID}

\* The transaction of Database.DeleteUserService, with `next` the row the
\* promotion query returned.
DeleteUserServiceTx(rows, userID, serviceID, nextID) ==
    LET target == {s \in UserRows(rows, userID) : s.ID = serviceID}
        wasDefault == \E s \in target : s.IsDefault
        remaining == rows \ target
    IN  IF target = {} THEN rows
        ELSE IF wasDefault /\ UserRows(remaining, userID) # {}
        THEN SetDefaultByID(remaining, nextID)
        ELSE remaining

DeleteUserService(userID, serviceID, dbOK) ==
    LET remaining == {s \in UserRows(user_services, userID) : s.ID # serviceID}
    IN  /\ IF dbOK
           THEN IF remaining = {}
                THEN user_services' =
                       DeleteUserServiceTx(user_services, userID, serviceID, 0)
                ELSE \E next \in MostRecent(remaining) :
                       user_services' =
                         DeleteUserServiceTx(user_services, userID, serviceID, next.ID)
           ELSE UNCHANGED user_services
        /\ UNCHANGED <<probeVars, lockVars, now, config, promptVars, nextServiceID, user_settings, queueVars, mediaVars, reqs>>

\* Database.GetDefaultUserService: the rows the query may return (none when
\* the user has no default row).
GetDefaultUserService(rows, userID) ==
    MostRecent({s \in UserRows(rows, userID) : s.IsDefault})


\* Variant of the resolution that prefers the environment key to the stored
\* default.
resolveServiceConfig_EnvFirst(rows, userID, dbOK) ==
    IF ~dbOK
    THEN {[err |-> "db error", service |-> EmptyServiceConfig]}
    ELSE IF config.GeminiAPIKey # ""
    THEN {[err |-> "",
           service |-> [Type |-> ServiceTypeStandard, Name |-> "env-default",
                        APIKey |-> config.GeminiAPIKey,
                        BaseURL |-> config.GeminiBaseURL,
                        ProjectID |-> "", Location |-> "", Model |-> ""]]}
    ELSE IF GetDefaultUserService(rows, userID) # {}
    THEN {[err |-> "",
           service |-> [Type |-> s.Type, Name |-> s.Name, APIKey |-> s.APIKey,
                        BaseURL |-> s.BaseURL, ProjectID |-> s.ProjectID,
                        Location |-> s.Location, Model |-> s.Model]] :
            s \in GetDefaultUserService(rows, userID)}
    ELSE {[err |-> "no service configured", service |-> EmptyServiceConfig]}

\* Bot.resolveServiceConfig: the results it may return.  dbOK = FALSE is a
\* failed query, returned as the error.
resolveServiceConfig(rows, userID, dbOK) ==
    IF ~dbOK
    THEN {[err |-> "db error", service |-> EmptyServiceConfig]}
    ELSE IF GetDefaultUserService(rows, userID) # {}
    THEN {[err |-> "",
           service |-> [Type |-> s.Type, Name |-> s.Name, APIKey |-> s.APIKey,
                        BaseURL |-> s.BaseURL, ProjectID |-> s.ProjectID,
                        Location |-> s.Location, Model |-> s.Model]] :
            s \in GetDefaultUserService(rows, userID)}
    ELSE IF config.GeminiAPIKey # ""
    THEN {[err |-> "",
           service |-> [Type |-> ServiceTypeStandard, Name |-> "env-default",
                        APIKey |-> config.GeminiAPIKey,
                        BaseURL |-> config.GeminiBaseURL,
                        ProjectID |-> "", Location |-> "", Model |-> ""]]}
    ELSE {[err |-> "no service configured", service |-> EmptyServiceConfig]}

\* ------------------------------------------------------------ aspect ratio
defaultAspectRatio == "1:1"

\* gemini.supportedRatios, each entry <<name, numerator, denominator>>.
supportedRatios ==
    << <<"1:1", 1, 1>>, <<"2:3", 2, 3>>, <<"3:2", 3, 2>>, <<"3:4", 3, 4>>,
       <<"4:3", 4, 3>>, <<"4:5", 4, 5>>, <<"5:4", 5, 4>>, <<"9:16", 9, 16>>,
       <<"16:9", 16, 9>>, <<"21:9", 21, 9>> >>

\* The images behind the file IDs of the model: <<width, height>>, and
\* <<0, 0>> for bytes image.DecodeConfig rejects.
FileIDs == {"f1", "f2", "f3", "s1"}
ImageDims == [f \in FileIDs |->
                CASE f = "f1" -> <<1000, 600>>
                  [] f = "f2" -> <<1000, 100>>
                  [] f = "s1" -> <<600, 600>>
                  [] OTHER -> <<0, 0>>]

Abs(x) == IF x < 0 THEN -x ELSE x

\* |w/h - a/b| as the numerator over the common denominator h*b.
RatioDiffNum(w, h, r) == Abs(w * r[3] - r[2] * h)

\* The float64 arithmetic of GetImageInfo agrees with exact arithmetic except
\* where two quantities are exactly equal.  At w/h = 17/24, midway between
\* 2:3 and 3:4, the rounded difference to 3:4 is the smaller one; at the
\* ratios of FloatOverThreshold, where the nearest entry differs by exactly
\* 10%, the rounded quotient minDiff/actualRatio is above 0.1.
FloatTieLater(w, h, i, best) ==
    /\ w * 24 = 17 * h
    /\ supportedRatios[i][1] = "3:4"
    /\ supportedRatios[best][1] = "2:3"

FloatOverThreshold == {<<10, 9>>, <<10, 11>>, <<45, 88>>, <<70, 33>>}

\* The scan of GetImageInfo: index of the first entry with the least
\* difference from w/h (a later entry replaces the best only when closer).
RECURSIVE NearestFrom(_, _, _, _)
NearestFrom(w, h, i, best) ==
    IF i > Len(supportedRatios) THEN best
    ELSE IF \/ RatioDiffNum(w, h, supportedRatios[i]) * supportedRatios[best][3]
                 < RatioDiffNum(w, h, supportedRatios[best]) * supportedRatios[i][3]
            \/ FloatTieLater(w, h, i, best)
         THEN NearestFrom(w, h, i + 1, i)
         ELSE NearestFrom(w, h, i + 1, best)

\* gemini.GetImageInfo: the AspectRatio it reports for an image of w x h
\* (minDiff / actualRatio > 0.1 gives the empty ratio).
GetImageInfo(dims) ==
    LET w == dims[1]
        h == dims[2]
        best == supportedRatios[NearestFrom(w, h, 2, 1)]
    IN  IF w = 0 \/ h = 0 THEN [err |-> TRUE, AspectRatio |-> ""]
        ELSE IF \/ 10 * RatioDiffNum(w, h, best) > w * best[3]
                \/ \E r \in FloatOverThreshold : w * r[2] = r[1] * h
        THEN [err |-> FALSE, AspectRatio |-> ""]
        ELSE [err |-> FALSE, AspectRatio |-> best[1]]

\* The downloads of a handler or of a replay: each image is kept by its
\* dimensions.
downloadImages(fileIDs) == [i \in 1..Len(fileIDs) |-> ImageDims[fileIDs[i]]]

\* The ratio parameter parseTextParams extracts from a message: a name of
\* the catalog, or the empty string when the message names none.
RatioParams == {""} \cup {supportedRatios[i][1] : i \in 1..Len(supportedRatios)}

\* strings.TrimSpace on the ratio strings of the model: a blank string
\* trims to the empty one, and a name of the catalog has no white space.
TrimSpace(s) == IF s = " " THEN "" ELSE s

\* Variant of the resolution that lets a decodable first image override
\* the requested ratio.
resolveAspectRatio_ImageFirst(requested, downloadedImages) ==
    IF Len(downloadedImages) > 0 /\ GetImageInfo(downloadedImages[1]).AspectRatio # ""
    THEN GetImageInfo(downloadedImages[1]).AspectRatio
    ELSE IF TrimSpace(requested) # "" THEN TrimSpace(requested)
    ELSE defaultAspectRatio

resolveAspectRatio(requested, downloadedImages) ==
    IF TrimSpace(requested) # "" THEN TrimSpace(requested)
    ELSE IF Len(downloadedImages) = 0 THEN defaultAspectRatio
    ELSE LET info == GetImageInfo(downloadedImages[1])
         IN  IF info.err \/ info.AspectRatio = "" THEN defaultAspectRatio
             ELSE info.AspectRatio

\* ------------------------------------------------- failed-generation queue
\* Errors of a provider call: LongError stands for a message of more than
\* 200 bytes.
LongError == "E-long"
ProviderErrors == {"e1", LongError}

truncateError(err) == IF err = LongError THEN "E-long...(truncated)" ELSE err

\* Variant of buildRetryQualities that makes the last try at 1K.
buildRetryQualities_LastAt1K(quality) ==
    LET q == IF quality = "" THEN "2K" ELSE quality
    IN  <<q, q, q, q, q, "1K">>

\* Variant of buildRetryQualities that downgrades the last three tries.
buildRetryQualities_Downgrade(quality) ==
    LET q == IF quality = "" THEN "2K" ELSE quality
    IN  <<q, q, q, "1K", "1K", "1K">>

buildRetryQualities(quality) ==
    LET q == IF quality = "" THEN "2K" ELSE quality
    IN  <<q, q, q, q, q, q>>

\* json.Marshal of a ServiceConfig / failedGenerationPayload: a JSON object
\* is the function from its keys to their values; omitempty fields are left
\* out when empty.
OmitEmpty(obj, keys) ==
    [k \in {x \in DOMAIN obj : ~(x \in keys /\ obj[x] = "")} |-> obj[k]]

EmptyObject == [k \in {} |-> ""]

\* Variant of marshalService that keeps the API key out of the payload.
marshalService_NoKey(svc) ==
    OmitEmpty([type |-> svc.Type, name |-> svc.Name, api_key |-> "",
               base_url |-> svc.BaseURL, project_id |-> svc.ProjectID,
               location |-> svc.Location, model |-> svc.Model],
              {"name", "base_url", "project_id", "location", "model", "api_key"})

marshalService(svc) ==
    OmitEmpty([type |-> svc.Type, name |-> svc.Name, api_key |-> svc.APIKey,
               base_url |-> svc.BaseURL, project_id |-> svc.ProjectID,
               location |-> svc.Location, model |-> svc.Model],
              {"name", "base_url", "project_id", "location", "model"})

\* Variant of marshalPayload that leaves the aspect ratio out.
marshalPayload_NoRatio(payload) ==
    [valid |-> TRUE,
     obj |-> [prompt |-> payload.Prompt, quality |-> payload.Quality,
              service |-> marshalService(payload.Service)]
             @@ (IF payload.ImageFileIDs = <<>> THEN EmptyObject
                 ELSE [image_file_ids |-> payload.ImageFileIDs])]

marshalPayload(payload) ==
    [valid |-> TRUE,
     obj |-> [prompt |-> payload.Prompt, quality |-> payload.Quality,
              service |-> marshalService(payload.Service)]
             @@ (IF payload.AspectRatio = "" THEN EmptyObject
                 ELSE [aspect_ratio |-> payload.AspectRatio])
             @@ (IF payload.ImageFileIDs = <<>> THEN EmptyObject
                 ELSE [image_file_ids |-> payload.ImageFileIDs])]

Field(obj, key, zero) == IF key \in DOMAIN obj THEN obj[key] ELSE zero

unmarshalService(obj) ==
    [Type |-> Field(obj, "type", ""), Name |-> Field(obj, "name", ""),
     APIKey |-> Field(obj, "api_key", ""), BaseURL |-> Field(obj, "base_url", ""),
     ProjectID |-> Field(obj, "project_id", ""),
     Location |-> Field(obj, "location", ""), Model |-> Field(obj, "model", "")]

unmarshalPayload(raw) ==
    [Prompt |-> Field(raw.obj, "prompt", ""),
     Quality |-> Field(raw.obj, "quality", ""),
     AspectRatio |-> Field(raw.obj, "aspect_ratio", ""),
     ImageFileIDs |-> Field(raw.obj, "image_file_ids", <<>>),
     Service |-> unmarshalService(Field(raw.obj, "service", EmptyObject))]

NullTime == [Valid |-> FALSE, Time |-> 0]

\* Database.AddFailedGeneration: the table after the INSERT.
AddFailedGeneration(rows, id, userID, reqID, payload, lastError, createdAt) ==
    rows \cup {[ID |-> id, UserID |-> userID, ReplyTo |-> reqID, Payload |-> payload,
                LastError |-> lastError, RetryCount |-> 0, CreatedAt |-> createdAt,
                LastRetryAt |-> NullTime]}

\* Variant of MarkFailedGenerationRetry that counts downwards.
MarkFailedGenerationRetry_CountDown(rows, id, lastError, at) ==
    {IF t.ID = id
     THEN [t EXCEPT !.RetryCount = t.RetryCount - 1, !.LastError = lastError,
                    !.LastRetryAt = [Valid |-> TRUE, Time |-> at]]
     ELSE t : t \in rows}

\* Variant of MarkFailedGenerationRetry that counts a failed replay twice.
MarkFailedGenerationRetry_Twice(rows, id, lastError, at) ==
    {IF t.ID = id
     THEN [t EXCEPT !.RetryCount = t.RetryCount + 2, !.LastError = lastError,
                    !.LastRetryAt = [Valid |-> TRUE, Time |-> at]]
     ELSE t : t \in rows}

\* Database.MarkFailedGenerationRetry: the table after the UPDATE.
MarkFailedGenerationRetry(rows, id, lastError, at) ==
    {IF t.ID = id
     THEN [t EXCEPT !.RetryCount = t.RetryCount + 1, !.LastError = lastError,
                    !.LastRetryAt = [Valid |-> TRUE, Time |-> at]]
     ELSE t : t \in rows}

\* Database.DeleteFailedGeneration: the table after the DELETE.
DeleteFailedGeneration(rows, id) == {t \in rows : t.ID # id}

TaskIDs(rows) == {t.ID : t \in rows}


\* ------------------------------------------------------- media-group cache
MediaGroupIDs == {"g1", "g2"}

\* Lengths of the file IDs in bytes: "s1" is a short one.
FileIDLen == [f \in FileIDs |-> IF f = "s1" THEN 12 ELSE 64]

\* Variant of cacheMediaGroupImage that skips a file ID the group holds.
cacheMediaGroupImage_Dedup(table, mediaGroupID, fileID, at) ==
    IF \E i \in 1..Len(table[mediaGroupID]) : table[mediaGroupID][i].FileID = fileID
    THEN table
    ELSE [table EXCEPT ![mediaGroupID] = Append(@, [FileID |-> fileID, Timestamp |-> at])]

\* Bot.cacheMediaGroupImage: the table after the append.
cacheMediaGroupImage(table, mediaGroupID, fileID, at) ==
    [table EXCEPT ![mediaGroupID] = Append(@, [FileID |-> fileID, Timestamp |-> at])]

\* Bot.cacheMediaGroupImage, its log line: the slice fileID[:20] panics for
\* a file ID of fewer than 20 bytes.
cacheMediaGroupImagePanics(fileID) == FileIDLen[fileID] < LogPrefixLen

\* Bot.getMediaGroupImages: the file IDs of the group, copied in order.
getMediaGroupImages(table, mediaGroupID) ==
    [i \in 1..Len(table[mediaGroupID]) |-> table[mediaGroupID][i].FileID]

\* Variant of the cleanup pass that drops the old entries of a group and
\* keeps its younger ones.
cleanupMediaGroupCache_PruneEntries(table, at) ==
    [g \in DOMAIN table |->
        SelectSeq(table[g], LAMBDA e : ~(at - e.Timestamp > EvictAge))]

\* Variant of the cleanup pass that ages a group by its newest entry.
cleanupMediaGroupCache_Newest(table, at) ==
    [g \in DOMAIN table |->
        IF Len(table[g]) > 0 /\ at - table[g][Len(table[g])].Timestamp > EvictAge
        THEN <<>> ELSE table[g]]

\* One pass of the loop body of Bot.cleanupMediaGroupCache at time `at`.
cleanupMediaGroupCache(table, at) ==
    [g \in DOMAIN table |->
        IF Len(table[g]) > 0 /\ at - table[g][1].Timestamp > EvictAge
        THEN <<>> ELSE table[g]]

\* The cleanup goroutine: the pass it runs on a tick of its 5-minute ticker.
Sweep ==
    /\ now = nextSweep
    /\ groups' = cleanupMediaGroupCache(groups, now)
    /\ arrived' = [g \in MediaGroupIDs |->
                     IF cleanupMediaGroupCache(groups, now)[g] = <<>> THEN <<>>
                     ELSE arrived[g]]
    /\ nextSweep' = nextSweep + SweepPeriod
    /\ UNCHANGED <<probeVars, lockVars, now, config, promptVars, svcVars, user_settings, queueVars, appends,
                   panicked, reqs>>

\* A minute passes.  A due cleanup pass runs before the clock moves on.
Tick(limit) ==
    /\ now < limit
    /\ now < nextSweep
    /\ now' = now + 1
    /\ UNCHANGED <<probeVars, lockVars, config, promptVars, svcVars, user_settings, queueVars, mediaVars, reqs>>

\* ------------------------------------------- the table under its RWMutex
\* Goroutines that call the table at the same time: the handler goroutines
\* of incoming messages, and the cleanup goroutine.
MaxCallers == 3
CleanupCaller == 0
CallerIDs == CleanupCaller..MaxCallers
HandlerCallers == CallerIDs \ {CleanupCaller}

\* Table saved_prompts after the users saved prompts with /save: SavePrompt
\* inserts a row with is_default FALSE.  The last prompt is of user 2, the
\* others are of user 1.
StoredPrompts ==
    {[ID |-> i, UserID |-> IF i < MaxPrompts THEN 1 ELSE 2, IsDefault |-> FALSE] :
        i \in 1..MaxPrompts}

CallbackIDs == 1..MaxCallbacks

\* A handleCallback goroutine that is not running.
IdleCallback == [pc |-> "idle", From |-> 0, id |-> 0, answer |-> ""]

\* mediaGroups.mu with nobody holding it.
FreeLock == [writers |-> {}, readers |-> {}]

\* A goroutine that is not in a call.  `before` and `after` are the append
\* calls that had returned when a snapshot call began and the append calls
\* that had begun when it returned; `evicted` are the groups the cleanup
\* goroutine has deleted.
IdleCaller ==
    [pc |-> "idle", op |-> "", g |-> "", f |-> "", local |-> <<>>, result |-> <<>>,
     before |-> {}, after |-> {}, evicted |-> {}]

\* Variant of Lock that never waits.
CanLock_Unguarded(m) == TRUE

\* sync.RWMutex: Lock waits until no writer and no reader holds the mutex.
CanLock(m) == m.writers = {} /\ m.readers = {}

\* sync.RWMutex: RLock waits until no writer holds the mutex.
CanRLock(m) == m.writers = {}

AppendCallers(g) == {d \in HandlerCallers : callers[d].op = "append" /\ callers[d].g = g}
ReturnedAppends(g) == {d \in AppendCallers(g) : callers[d].pc = "done"}

\* handleMessage calls cacheMediaGroupImage for a photo of a media group.
BeginAppend(c, g, f) ==
    /\ c \in HandlerCallers
    /\ callers[c].pc = "idle"
    /\ callers' = [callers EXCEPT ![c] =
                     [IdleCaller EXCEPT !.pc = "lock", !.op = "append", !.g = g, !.f = f]]
    /\ UNCHANGED <<probeVars, now, config, promptVars, svcVars, user_settings, queueVars, mediaVars,
                   reqs, mu>>

\* A handler calls getMediaGroupImages.
BeginSnapshot(c, g) ==
    /\ c \in HandlerCallers
    /\ callers[c].pc = "idle"
    /\ callers' = [callers EXCEPT ![c] =
                     [IdleCaller EXCEPT !.pc = "rlock", !.op = "snapshot", !.g = g,
                                        !.before = ReturnedAppends(g)]]
    /\ UNCHANGED <<probeVars, now, config, promptVars, svcVars, user_settings, queueVars, mediaVars,
                   reqs, mu>>

\* b.mediaGroups.mu.Lock() of cacheMediaGroupImage and cleanupMediaGroupCache.
Lock(c) ==
    /\ callers[c].pc = "lock"
    /\ CanLock(mu)
    /\ mu' = [mu EXCEPT !.writers = @ \cup {c}]
    /\ callers' = [callers EXCEPT ![c].pc = IF c = CleanupCaller THEN "pass" ELSE "read"]
    /\ UNCHANGED <<probeVars, now, config, promptVars, svcVars, user_settings, queueVars, mediaVars, reqs>>

\* cacheMediaGroupImage, the operand of its append: the slice of the group.
AppendRead(c) ==
    /\ callers[c].pc = "read"
    /\ callers' = [callers EXCEPT ![c].local = groups[callers[c].g], ![c].pc = "write"]
    /\ UNCHANGED <<probeVars, now, config, promptVars, svcVars, user_settings, queueVars, mediaVars,
                   reqs, mu>>

\* cacheMediaGroupImage, the assignment of the extended slice to the group.
AppendWrite(c) ==
    /\ callers[c].pc = "write"
    /\ groups' = [groups EXCEPT ![callers[c].g] =
                    cacheMediaGroupImage([groups EXCEPT ![callers[c].g] = callers[c].local],
                                         callers[c].g, callers[c].f, now)[callers[c].g]]
    /\ appends' = appends + 1
    /\ arrived' = [arrived EXCEPT ![callers[c].g] = Append(@, callers[c].f)]
    /\ callers' = [callers EXCEPT ![c].pc = "unlock"]
    /\ UNCHANGED <<probeVars, now, config, promptVars, svcVars, user_settings, queueVars, nextSweep,
                   panicked, reqs, mu>>

\* The deferred b.mediaGroups.mu.Unlock(): the call returns.  The cleanup
\* goroutine goes back to waiting for its ticker.
Unlock(c) ==
    /\ callers[c].pc = "unlock"
    /\ mu' = [mu EXCEPT !.writers = @ \ {c}]
    /\ callers' = [callers EXCEPT ![c].pc = IF c = CleanupCaller THEN "idle" ELSE "done"]
    /\ UNCHANGED <<probeVars, now, config, promptVars, svcVars, user_settings, queueVars, mediaVars, reqs>>

\* b.mediaGroups.mu.RLock() of getMediaGroupImages.
RLock(c) ==
    /\ callers[c].pc = "rlock"
    /\ CanRLock(mu)
    /\ mu' = [mu EXCEPT !.readers = @ \cup {c}]
    /\ callers' = [callers EXCEPT ![c].pc = "copy"]
    /\ UNCHANGED <<probeVars, now, config, promptVars, svcVars, user_settings, queueVars, mediaVars, reqs>>

\* getMediaGroupImages, the copy of the file IDs of the group.
SnapshotCopy(c) ==
    /\ callers[c].pc = "copy"
    /\ callers' = [callers EXCEPT ![c].result = getMediaGroupImages(groups, callers[c].g),
                                  ![c].pc = "runlock"]
    /\ UNCHANGED <<probeVars, now, config, promptVars, svcVars, user_settings, queueVars, mediaVars,
                   reqs, mu>>

\* The deferred b.mediaGroups.mu.RUnlock(): the snapshot returns.
RUnlock(c) ==
    /\ callers[c].pc = "runlock"
    /\ mu' = [mu EXCEPT !.readers = @ \ {c}]
    /\ callers' = [callers EXCEPT ![c].pc = "done", ![c].after = AppendCallers(callers[c].g)]
    /\ UNCHANGED <<probeVars, now, config, promptVars, svcVars, user_settings, queueVars, mediaVars, reqs>>

\* Time passes until the ticker of the cleanup goroutine is due.
WaitForTicker(limit) ==
    /\ now < nextSweep
    /\ nextSweep <= limit
    /\ now' = nextSweep
    /\ UNCHANGED <<probeVars, lockVars, config, promptVars, svcVars, user_settings, queueVars, mediaVars,
                   reqs>>

\* The ticker of the cleanup goroutine fires: the goroutine goes for the lock.
SweepBegin ==
    /\ now = nextSweep
    /\ callers[CleanupCaller].pc = "idle"
    /\ nextSweep' = nextSweep + SweepPeriod
    /\ callers' = [callers EXCEPT ![CleanupCaller].pc = "lock"]
    /\ UNCHANGED <<probeVars, now, config, promptVars, svcVars, user_settings, queueVars, groups,
                   appends, arrived, panicked, reqs, mu>>

\* cleanupMediaGroupCache, the loop over the groups, with the lock held.
SweepPass ==
    /\ callers[CleanupCaller].pc = "pass"
    /\ groups' = cleanupMediaGroupCache(groups, now)
    /\ arrived' = [g \in MediaGroupIDs |->
                     IF cleanupMediaGroupCache(groups, now)[g] = <<>> THEN <<>>
                     ELSE arrived[g]]
    /\ callers' = [callers EXCEPT
                     ![CleanupCaller].pc = "unlock",
                     ![CleanupCaller].evicted =
                         @ \cup {g \in MediaGroupIDs :
                                   /\ groups[g] # <<>>
                                   /\ cleanupMediaGroupCache(groups, now)[g] = <<>>}]
    /\ UNCHANGED <<probeVars, now, config, promptVars, svcVars, user_settings, queueVars, nextSweep,
                   appends, panicked, reqs, mu>>

\* ------------------------------------------------------ live request path
IdleReq ==
    [pc |-> "idle", handler |-> "", UserID |-> 0, file |-> "", group |-> "",
     replyFile |-> "", replyGroup |-> "", single |-> FALSE,
     paramQuality |-> "", paramRatio |-> "",
     service |-> EmptyServiceConfig, images |-> <<>>, quality |-> "",
     stored |-> "", aspectRatio |-> "", tries |-> 0, calls |-> <<>>,
     lastErr |-> "", outcome |-> "", failedAt |-> 0, enqueued |-> 0,
     enqueueErr |-> FALSE, serviceErr |-> "", noticeErr |-> FALSE, fetches |-> 0,
     slept |-> 0]

\* Database.GetUserSettings: no row reads as "2K", a failed query as "".
GetUserSettings(settings, userID, dbOK) ==
    IF ~dbOK THEN ""
    ELSE IF settings[userID] = "NoRow" THEN "2K" ELSE settings[userID]

\* Variant of the handler that goes on after a failed resolution.
AfterResolve_Continue(err) == [pc |-> "collect", outcome |-> ""]

\* "if err != nil" after resolveServiceConfig: the handler replies with the
\* error and returns; otherwise it goes on to collect the images.
AfterResolve(err) ==
    IF err # "" THEN [pc |-> "done", outcome |-> "noService"]
    ELSE [pc |-> "collect", outcome |-> ""]

\* Bot.handleMessage up to the dispatch, then the head of handleTextMessage
\* / handleImageReplyText up to the service resolution.
HandleMessage(r, ev, dbOK) ==
    /\ reqs[r].pc = "idle"
    /\ \A q \in 1..(r - 1) : reqs[q].pc # "idle"
    /\ ~panicked
    /\ IF ev.file # "" /\ ev.group # ""
       THEN /\ appends < MaxAppends
            /\ groups' = cacheMediaGroupImage(groups, ev.group, ev.file, now)
            /\ appends' = appends + 1
            /\ arrived' = [arrived EXCEPT ![ev.group] = Append(@, ev.file)]
            /\ panicked' = cacheMediaGroupImagePanics(ev.file)
       ELSE UNCHANGED <<groups, appends, arrived, panicked>>
    /\ IF ev.file # "" /\ ev.group # "" /\ cacheMediaGroupImagePanics(ev.file)
       THEN UNCHANGED reqs
       ELSE
       \E res \in resolveServiceConfig(user_services, ev.UserID, dbOK) :
         reqs' = [reqs EXCEPT ![r] =
                    [IdleReq EXCEPT !.handler = ev.handler, !.UserID = ev.UserID,
                       !.file = ev.file, !.group = ev.group,
                       !.replyFile = ev.replyFile, !.replyGroup = ev.replyGroup,
                       !.single = ev.single, !.paramQuality = ev.paramQuality,
                       !.paramRatio = ev.paramRatio,
                       !.service = res.service,
                       !.serviceErr = res.err,
                       !.pc = AfterResolve(res.err).pc,
                       !.outcome = AfterResolve(res.err).outcome]]
    /\ UNCHANGED <<probeVars, lockVars, now, config, promptVars, svcVars, user_settings, queueVars, nextSweep>>

\* A photo of a media group that triggers no handler: handleMessage caches
\* it and returns.
ReceiveGroupPhoto(g, f) ==
    /\ ~panicked
    /\ appends < MaxAppends
    /\ groups' = cacheMediaGroupImage(groups, g, f, now)
    /\ appends' = appends + 1
    /\ arrived' = [arrived EXCEPT ![g] = Append(@, f)]
    /\ panicked' = cacheMediaGroupImagePanics(f)
    /\ UNCHANGED <<probeVars, lockVars, now, config, promptVars, svcVars, user_settings, queueVars, nextSweep, reqs>>

\* The images a handler collects ("收集圖片").
GroupOrSingle(table, g, f, single) ==
    IF g = "" \/ single THEN <<f>>
    ELSE IF Len(getMediaGroupImages(table, g)) > 0
         THEN getMediaGroupImages(table, g)
         ELSE <<f>>

\* The handler takes a snapshot of a media group: handleImageReplyText for a
\* photo of a group, handleTextMessage for a reply to a photo of a group,
\* unless the message asks for the single image.
ReadsGroup(rq) ==
    IF rq.handler = "imageReply"
    THEN rq.group # "" /\ ~rq.single
    ELSE rq.replyFile # "" /\ rq.replyGroup # "" /\ ~rq.single

\* The milliseconds a handler sleeps before its snapshot: handleTextMessage
\* calls time.Sleep(500 * time.Millisecond), handleImageReplyText does not
\* sleep.
SnapshotWait(rq) ==
    IF rq.handler # "imageReply" /\ ReadsGroup(rq) THEN SnapshotDelay ELSE 0

CollectImages(table, rq) ==
    IF rq.handler = "imageReply"
    THEN GroupOrSingle(table, rq.group, rq.file, rq.single)
    ELSE (IF rq.file # "" THEN <<rq.file>> ELSE <<>>)
         \o (IF rq.replyFile # ""
             THEN GroupOrSingle(table, rq.replyGroup, rq.replyFile, rq.single)
             ELSE <<>>)

\* Variant of the download loop that fetches a failing image a second time
\* before it gives up.
RECURSIVE RunDownloads_Retry(_, _, _, _)
RunDownloads_Retry(images, i, dlFail, st) ==
    IF i > Len(images) THEN st
    ELSE IF i = dlFail
    THEN [st EXCEPT !.fetches = @ + 2, !.failedAt = i]
    ELSE RunDownloads_Retry(images, i + 1, dlFail,
                            [st EXCEPT !.fetches = @ + 1,
                                       !.downloaded = Append(@, ImageDims[images[i]])])

\* The download loop "for i, img := range images": image i is fetched once;
\* when the fetch fails (GetFile or downloadFile) the handler reports
\* position i and returns.
RECURSIVE RunDownloads(_, _, _, _)
RunDownloads(images, i, dlFail, st) ==
    IF i > Len(images) THEN st
    ELSE IF i = dlFail
    THEN [st EXCEPT !.fetches = @ + 1, !.failedAt = i]
    ELSE RunDownloads(images, i + 1, dlFail,
                      [st EXCEPT !.fetches = @ + 1,
                                 !.downloaded = Append(@, ImageDims[images[i]])])

\* From the image collection to the start of the retry loop: the snapshot of
\* the media group, the quality, the status message, the downloads
\* (dlFail = k > 0 is a failed download of image k) and the aspect ratio.
Collect(r, settingsOK, statusOK, dlFail) ==
    LET rq == reqs[r]
        images == CollectImages(groups, rq)
        stored == GetUserSettings(user_settings, rq.UserID, settingsOK)
        quality == IF rq.paramQuality # "" THEN rq.paramQuality
                   ELSE IF stored = "" THEN "2K" ELSE stored
        dl == RunDownloads(images, 1, dlFail,
                           [fetches |-> 0, failedAt |-> 0, downloaded |-> <<>>])
    IN  /\ rq.pc = "collect"
        /\ dlFail <= Len(images)
        /\ reqs' = [reqs EXCEPT ![r] =
             IF ~statusOK
             THEN [rq EXCEPT !.images = images, !.slept = SnapshotWait(rq),
                             !.quality = quality,
                             !.stored = stored,
                             !.pc = "done", !.outcome = "statusFailed"]
             ELSE IF dl.failedAt > 0
             THEN [rq EXCEPT !.images = images, !.slept = SnapshotWait(rq),
                             !.quality = quality,
                             !.stored = stored,
                             !.pc = "done", !.outcome = "downloadFailed",
                             !.fetches = dl.fetches,
                             !.failedAt = dl.failedAt]
             ELSE [rq EXCEPT !.images = images, !.slept = SnapshotWait(rq),
                             !.quality = quality,
                             !.stored = stored,
                             !.fetches = dl.fetches,
                             !.aspectRatio = resolveAspectRatio(rq.paramRatio,
                                                                dl.downloaded),
                             !.pc = "try"]]
        /\ UNCHANGED <<probeVars, lockVars, now, config, promptVars, svcVars, user_settings, queueVars, mediaVars>>

\* Client.sendImageRequest: a failed buildGenerateURL returns before any
\* HTTP request; otherwise `outcome` is what the provider answers.
sendImageRequest(service, outcome) ==
    LET url == buildGenerateURL(service)
    IN  IF ~url.ok THEN [err |-> url.err, http |-> FALSE]
        ELSE [err |-> IF outcome = "ok" THEN "" ELSE outcome, http |-> TRUE]

\* Variant of the retry loop that resolves the ratio again on each later try,
\* without the images.
RECURSIVE RunTries_ResolveAgain(_, _, _, _, _, _)
RunTries_ResolveAgain(qualities, i, outcomes, service, aspectRatio, st) ==
    IF i > Len(qualities) THEN st
    ELSE LET res == sendImageRequest(service, outcomes[i])
             st2 == [tries |-> st.tries + 1,
                     calls |-> Append(st.calls,
                                 [quality |-> qualities[i], aspectRatio |-> aspectRatio,
                                  service |-> service, http |-> res.http,
                                  err |-> res.err]),
                     lastErr |-> res.err]
         IN  IF res.err = "" THEN st2
             ELSE RunTries_ResolveAgain(qualities, i + 1, outcomes, service,
                                        defaultAspectRatio, st2)

\* Variant of the retry loop without the break on success.
RECURSIVE RunTries_NoBreak(_, _, _, _, _, _)
RunTries_NoBreak(qualities, i, outcomes, service, aspectRatio, st) ==
    IF i > Len(qualities) THEN st
    ELSE LET res == sendImageRequest(service, outcomes[i])
             st2 == [tries |-> st.tries + 1,
                     calls |-> Append(st.calls,
                                 [quality |-> qualities[i], aspectRatio |-> aspectRatio,
                                  service |-> service, http |-> res.http,
                                  err |-> res.err]),
                     lastErr |-> res.err]
         IN  RunTries_NoBreak(qualities, i + 1, outcomes, service, aspectRatio, st2)

\* Variant of the retry loop that keeps the error of the first failed try.
RECURSIVE RunTries_KeepFirstErr(_, _, _, _, _, _)
RunTries_KeepFirstErr(qualities, i, outcomes, service, aspectRatio, st) ==
    IF i > Len(qualities) THEN st
    ELSE LET res == sendImageRequest(service, outcomes[i])
             st2 == [tries |-> st.tries + 1,
                     calls |-> Append(st.calls,
                                 [quality |-> qualities[i], aspectRatio |-> aspectRatio,
                                  service |-> service, http |-> res.http,
                                  err |-> res.err]),
                     lastErr |-> IF st.lastErr # "" /\ res.err # "" THEN st.lastErr
                                 ELSE res.err]
         IN  IF res.err = "" THEN st2
             ELSE RunTries_KeepFirstErr(qualities, i + 1, outcomes, service, aspectRatio,
                                        st2)

\* The retry loop "for i, q := range qualities": try i with quality
\* qualities[i], break on the first nil error.
RECURSIVE RunTries(_, _, _, _, _, _)
RunTries(qualities, i, outcomes, service, aspectRatio, st) ==
    IF i > Len(qualities) THEN st
    ELSE LET res == sendImageRequest(service, outcomes[i])
             st2 == [tries |-> st.tries + 1,
                     calls |-> Append(st.calls,
                                 [quality |-> qualities[i], aspectRatio |-> aspectRatio,
                                  service |-> service, http |-> res.http,
                                  err |-> res.err]),
                     lastErr |-> res.err]
         IN  IF res.err = "" THEN st2
             ELSE RunTries(qualities, i + 1, outcomes, service, aspectRatio, st2)

\* What the provider answers on each try: the first `failures` tries fail,
\* the last of them with `lastFailure`, the earlier ones with "e1".
Outcomes(failures, lastFailure) ==
    [i \in 1..RetryBudget |->
        IF i < failures THEN "e1" ELSE IF i = failures THEN lastFailure ELSE "ok"]

\* The retry loop of a handler and, on success, the delivery of the result.
RetryLoop(r, failures, lastFailure) ==
    LET rq == reqs[r]
        st == RunTries(buildRetryQualities(rq.quality), 1,
                       Outcomes(failures, lastFailure), rq.service, rq.aspectRatio,
                       [tries |-> 0, calls |-> <<>>, lastErr |-> ""])
    IN  /\ rq.pc = "try"
        /\ reqs' = [reqs EXCEPT ![r] =
             [rq EXCEPT !.tries = st.tries, !.calls = st.calls, !.lastErr = st.lastErr,
                        !.pc = IF st.lastErr # "" THEN "exhausted" ELSE "done",
                        !.outcome = IF st.lastErr # "" THEN "" ELSE "delivered"]]
        /\ UNCHANGED <<probeVars, lockVars, now, config, promptVars, svcVars, user_settings, queueVars, mediaVars>>

\* Variant of the closing notice that is sent only for a stored task.
ExhaustedNotice_OnlyIfQueued(dbOK, sendOK) ==
    IF dbOK THEN [outcome |-> "queuedNotice", noticeErr |-> ~sendOK]
    ELSE [outcome |-> "", noticeErr |-> FALSE]

\* updateMessageHTML after enqueueFailedGeneration: the edit that turns the
\* status message into the failure notice is sent whatever the INSERT did,
\* and the error of the send (sendOK = FALSE) is dropped.
ExhaustedNotice(dbOK, sendOK) == [outcome |-> "queuedNotice", noticeErr |-> ~sendOK]

\* "if lastErr != nil": enqueueFailedGeneration (dbOK = FALSE is a failed
\* INSERT, which is logged) and the notice that the request was queued.
Exhausted(r, dbOK, sendOK) ==
    LET rq == reqs[r]
        payload == marshalPayload([Prompt |-> "prompt", Quality |-> rq.quality,
                                   AspectRatio |-> rq.aspectRatio,
                                   ImageFileIDs |-> rq.images, Service |-> rq.service])
    IN  /\ rq.pc = "exhausted"
        /\ IF dbOK
           THEN /\ failed_generations' =
                     AddFailedGeneration(failed_generations, nextTaskID, rq.UserID, r,
                                         payload, truncateError(rq.lastErr), now)
                /\ nextTaskID' = nextTaskID + 1
           ELSE UNCHANGED <<failed_generations, nextTaskID>>
        /\ reqs' = [reqs EXCEPT ![r] =
             [rq EXCEPT !.pc = "done",
                        !.outcome = ExhaustedNotice(dbOK, sendOK).outcome,
                        !.noticeErr = ExhaustedNotice(dbOK, sendOK).noticeErr,
                        !.enqueued = IF dbOK THEN rq.enqueued + 1 ELSE rq.enqueued,
                        !.enqueueErr = ~dbOK]]
        /\ UNCHANGED <<probeVars, lockVars, now, config, promptVars, svcVars, user_settings, ticks, replay, sent, mediaVars>>


\* Database.SetUserSettings, as Bot.callbackQuality calls it.
SetUserSettings(userID, quality, dbOK) ==
    /\ user_settings' = IF dbOK THEN [user_settings EXCEPT ![userID] = quality]
                        ELSE user_settings
    /\ UNCHANGED <<probeVars, lockVars, now, config, promptVars, svcVars, queueVars, mediaVars, reqs>>

\* ------------------------------------------------------ background replay
NoReplay ==
    [task |-> 0, req |-> 0, result |-> "none", err |-> "",
     snapshot |-> EmptyServiceConfig, service |-> EmptyServiceConfig,
     resolvedNow |-> {}, quality |-> "", aspectRatio |-> "", calls |-> 0,
     http |-> FALSE, notices |-> 0, photos |-> 0, docs |-> 0, wrote |-> FALSE]

\* What can go wrong in one replay, in the order of the code: the first
\* failing step decides, the steps after it do not run.
ReplayFailures ==
    {"none", "read", "resolve", "download", "generate", "send1", "send2", "send3"}

\* Variant of the delivery that sends the document first.
sendRetrySuccessResult_DocFirst(failAt) ==
    [err |-> IF failAt \in {"send1", "send2", "send3"} THEN "send failed" ELSE "",
     docs |-> IF failAt = "send1" THEN 0 ELSE 1,
     notices |-> IF failAt \in {"send1", "send2"} THEN 0 ELSE 1,
     photos |-> IF failAt \in {"send1", "send2", "send3"} THEN 0 ELSE 1]

\* Variant of the delivery that reports no error of its sends.
sendRetrySuccessResult_IgnoreErrors(failAt) ==
    [err |-> "",
     notices |-> IF failAt = "send1" THEN 0 ELSE 1,
     photos |-> IF failAt \in {"send1", "send2"} THEN 0 ELSE 1,
     docs |-> IF failAt \in {"send1", "send2", "send3"} THEN 0 ELSE 1]

\* Bot.sendRetrySuccessResult: the notice, the preview photo and the
\* document are sent in this order; the first failing send returns.
sendRetrySuccessResult(failAt) ==
    [err |-> IF failAt \in {"send1", "send2", "send3"} THEN "send failed" ELSE "",
     notices |-> IF failAt = "send1" THEN 0 ELSE 1,
     photos |-> IF failAt \in {"send1", "send2"} THEN 0 ELSE 1,
     docs |-> IF failAt \in {"send1", "send2", "send3"} THEN 0 ELSE 1]

\* Variant of the replay that prefers the service resolved for the owner to
\* the snapshot of the payload.
ReplayPlan_ResolveFirst(task, res, failAt) ==
    LET payload == unmarshalPayload(task.Payload)
        snapshotHasKey == payload.Service.APIKey # ""
        service == IF res.err = "" THEN res.service ELSE payload.Service
        aspectRatio == resolveAspectRatio(payload.AspectRatio,
                                          downloadImages(payload.ImageFileIDs))
        call == sendImageRequest(service, IF failAt = "generate" THEN "e1" ELSE "ok")
        sends == sendRetrySuccessResult(failAt)
        base == [NoReplay EXCEPT !.task = task.ID, !.req = task.ReplyTo,
                                 !.snapshot = payload.Service]
    IN  IF ~task.Payload.valid
        THEN [base EXCEPT !.result = "badPayload"]
        ELSE IF ~snapshotHasKey /\ res.err # ""
        THEN [base EXCEPT !.result = "resolveErr", !.err = res.err]
        ELSE IF Len(payload.ImageFileIDs) > 0 /\ failAt = "download"
        THEN [base EXCEPT !.result = "downloadErr", !.err = "download failed",
                          !.service = service]
        ELSE IF call.err # ""
        THEN [base EXCEPT !.result = "genErr", !.err = call.err, !.service = service,
                          !.quality = payload.Quality, !.aspectRatio = aspectRatio,
                          !.calls = 1, !.http = call.http]
        ELSE [base EXCEPT !.result = IF sends.err # "" THEN "sendErr" ELSE "success",
                          !.err = sends.err, !.service = service,
                          !.quality = payload.Quality, !.aspectRatio = aspectRatio,
                          !.calls = 1, !.http = call.http,
                          !.notices = sends.notices, !.photos = sends.photos,
                          !.docs = sends.docs]

\* The body of Bot.retryOneFailedGeneration for the task it read, up to its
\* store write; res is what resolveServiceConfig returns when it is called.
ReplayPlan(task, res, failAt) ==
    LET payload == unmarshalPayload(task.Payload)
        snapshotHasKey == payload.Service.APIKey # ""
        service == IF snapshotHasKey THEN payload.Service ELSE res.service
        aspectRatio == resolveAspectRatio(payload.AspectRatio,
                                          downloadImages(payload.ImageFileIDs))
        call == sendImageRequest(service, IF failAt = "generate" THEN "e1" ELSE "ok")
        sends == sendRetrySuccessResult(failAt)
        base == [NoReplay EXCEPT !.task = task.ID, !.req = task.ReplyTo,
                                 !.snapshot = payload.Service]
    IN  IF ~task.Payload.valid
        THEN [base EXCEPT !.result = "badPayload"]
        ELSE IF ~snapshotHasKey /\ res.err # ""
        THEN [base EXCEPT !.result = "resolveErr", !.err = res.err]
        ELSE IF Len(payload.ImageFileIDs) > 0 /\ failAt = "download"
        THEN [base EXCEPT !.result = "downloadErr", !.err = "download failed",
                          !.service = service]
        ELSE IF call.err # ""
        THEN [base EXCEPT !.result = "genErr", !.err = call.err, !.service = service,
                          !.quality = payload.Quality, !.aspectRatio = aspectRatio,
                          !.calls = 1, !.http = call.http]
        ELSE [base EXCEPT !.result = IF sends.err # "" THEN "sendErr" ELSE "success",
                          !.err = sends.err, !.service = service,
                          !.quality = payload.Quality, !.aspectRatio = aspectRatio,
                          !.calls = 1, !.http = call.http,
                          !.notices = sends.notices, !.photos = sends.photos,
                          !.docs = sends.docs]

\* Variant of the closing store write that records a failure on every task.
ReplayWrite_MarkAll(rows, plan, writeOK, at) ==
    IF ~writeOK THEN rows
    ELSE IF plan.result \in {"success", "badPayload"}
    THEN DeleteFailedGeneration(rows, plan.task)
    ELSE {[t EXCEPT !.RetryCount = t.RetryCount + 1, !.LastError = plan.err,
                    !.LastRetryAt = [Valid |-> TRUE, Time |-> at]] : t \in rows}

\* Variant of the closing store write that gives up a task whose images
\* cannot be downloaded.
ReplayWrite_DropOnDownload(rows, plan, writeOK, at) ==
    IF ~writeOK THEN rows
    ELSE IF plan.result \in {"success", "badPayload", "downloadErr"}
    THEN DeleteFailedGeneration(rows, plan.task)
    ELSE MarkFailedGenerationRetry(rows, plan.task, plan.err, at)

\* Variant of the closing store write that drops a task on any outcome.
ReplayWrite_DropOnError(rows, plan, writeOK, at) ==
    IF ~writeOK THEN rows
    ELSE DeleteFailedGeneration(rows, plan.task)

\* Variant of the closing store write that never deletes.
ReplayWrite_KeepOnSuccess(rows, plan, writeOK, at) ==
    IF ~writeOK THEN rows
    ELSE MarkFailedGenerationRetry(rows, plan.task, plan.err, at)

\* The store write that ends a replay: DeleteFailedGeneration on success
\* (and on a payload that does not parse), MarkFailedGenerationRetry on every
\* error; writeOK = FALSE is a failed write.
ReplayWrite(rows, plan, writeOK, at) ==
    IF ~writeOK THEN rows
    ELSE IF plan.result \in {"success", "badPayload"}
    THEN DeleteFailedGeneration(rows, plan.task)
    ELSE MarkFailedGenerationRetry(rows, plan.task, plan.err, at)

\* The services resolveServiceConfig returns for the user right now.
ResolvedNow(rows, userID) ==
    {x.service : x \in {y \in resolveServiceConfig(rows, userID, TRUE) : y.err = ""}}

\* One tick of Bot.retryFailedGenerations: Bot.retryOneFailedGeneration.
RetryOneFailedGeneration(failAt, writeOK) ==
    /\ ticks < MaxTicks
    /\ ticks' = ticks + 1
    /\ IF failAt = "read" \/ failed_generations = {}
       THEN /\ replay' = NoReplay
            /\ UNCHANGED <<failed_generations, sent>>
       ELSE \E task \in failed_generations :
            \E res \in resolveServiceConfig(user_services, task.UserID, failAt # "resolve") :
              LET plan == ReplayPlan(task, res, failAt)
              IN  /\ failed_generations' =
                       ReplayWrite(failed_generations, plan, writeOK, now)
                  /\ sent' = [sent EXCEPT ![task.ID] =
                                [notices |-> @.notices + plan.notices,
                                 photos |-> @.photos + plan.photos,
                                 docs |-> @.docs + plan.docs,
                                 fails |-> @.fails + (IF plan.result = "success" THEN 0 ELSE 1),
                                 marks |-> @.marks + (IF plan.result # "success" /\ writeOK
                                                      THEN 1 ELSE 0)]]
                  /\ replay' = [plan EXCEPT
                       !.resolvedNow = ResolvedNow(user_services, task.UserID),
                       !.wrote = writeOK]
    /\ UNCHANGED <<probeVars, lockVars, now, config, promptVars, svcVars, user_settings, nextTaskID, mediaVars, reqs>>

\* --------------------------------------------------------- specifications
NoProbe == [fn |-> ""]


Init ==
    /\ now = 0
    /\ user_services = {}
    /\ nextServiceID = 1
    /\ user_settings = [u \in Users |-> "NoRow"]
    /\ failed_generations = {}
    /\ nextTaskID = 1
    /\ groups = [g \in MediaGroupIDs |-> <<>>]
    /\ nextSweep = SweepPeriod
    /\ appends = 0
    /\ arrived = [g \in MediaGroupIDs |-> <<>>]
    /\ panicked = FALSE
    /\ mu = FreeLock
    /\ saved_prompts = StoredPrompts
    /\ callbacks = [c \in CallbackIDs |-> IdleCallback]
    /\ callers = [c \in CallerIDs |-> IdleCaller]
    /\ probe = NoProbe
    /\ answer = <<>>
    /\ reqs = [r \in 1..MaxRequests |-> IdleReq]
    /\ ticks = 0
    /\ replay = NoReplay
    /\ sent = [t \in 1..MaxRequests |->
                 [notices |-> 0, photos |-> 0, docs |-> 0, fails |-> 0, marks |-> 0]]
    /\ config = [GeminiAPIKey |-> "", GeminiBaseURL |-> ""]

\* The services Bot.cmdServiceAdd stores in the runs of Spec: its arguments
\* are non-empty words, and every service is added as the default.
BotServiceConfigs ==
    {[Type |-> ServiceTypeStandard, Name |-> "main", APIKey |-> "k1", BaseURL |-> "",
      ProjectID |-> "", Location |-> "", Model |-> ""],
     [Type |-> ServiceTypeCustom, Name |-> "proxy", APIKey |-> "k2",
      BaseURL |-> BadBaseURL, ProjectID |-> "", Location |-> "", Model |-> ""]}

TextEvent(userID, file, paramQuality, paramRatio) ==
    [handler |-> "text", UserID |-> userID, file |-> file, group |-> "",
     replyFile |-> "", replyGroup |-> "", single |-> FALSE,
     paramQuality |-> paramQuality, paramRatio |-> paramRatio]

SpecEvents ==
    {TextEvent(1, "", "", ""), TextEvent(1, "f1", "1K", ""),
     TextEvent(1, "", "", "16:9")}

Next ==
    \/ \E cfg \in BotServiceConfigs, dbOK \in BOOLEAN :
         AddUserService(1, cfg, TRUE, dbOK)
    \/ \E dbOK \in BOOLEAN : SetUserSettings(1, "4K", dbOK)
    \/ \E r \in 1..MaxLive, ev \in SpecEvents, dbOK \in BOOLEAN :
         HandleMessage(r, ev, dbOK)
    \/ \E r \in 1..MaxRequests, settingsOK, statusOK \in BOOLEAN, dlFail \in 0..1 :
         Collect(r, settingsOK, statusOK, dlFail)
    \/ \E r \in 1..MaxRequests, failures \in 0..RetryBudget, lastFailure \in ProviderErrors :
         RetryLoop(r, failures, lastFailure)
    \/ \E r \in 1..MaxRequests, dbOK, sendOK \in BOOLEAN : Exhausted(r, dbOK, sendOK)
    \/ \E failAt \in ReplayFailures, writeOK \in BOOLEAN :
         RetryOneFailedGeneration(failAt, writeOK)

Spec == Init /\ [][Next]_vars

\* The services table under every operation of the store, for two users.
NextServices ==
    \/ \E u \in Users, cfg \in BotServiceConfigs, setAsDefault, dbOK \in BOOLEAN :
         AddUserService(u, cfg, setAsDefault, dbOK)
    \/ \E u \in Users, id \in 1..MaxServices, dbOK \in BOOLEAN :
         SetDefaultUserService(u, id, dbOK)
    \/ \E u \in Users, id \in 1..MaxServices, dbOK \in BOOLEAN :
         DeleteUserService(u, id, dbOK)
    \/ Tick(MaxClock)

SpecServices == Init /\ [][NextServices]_vars

\* The services table with up to three services of one user, added under
\* either value of setAsDefault.
TableServiceConfigs ==
    BotServiceConfigs \cup
    {[Type |-> ServiceTypeStandard, Name |-> "backup", APIKey |-> "k3", BaseURL |-> "",
      ProjectID |-> "", Location |-> "", Model |-> ""]}

NextTable ==
    \/ \E u \in Users, cfg \in TableServiceConfigs, setAsDefault, dbOK \in BOOLEAN :
         AddUserService(u, cfg, setAsDefault, dbOK)
    \/ \E u \in Users, id \in 1..MaxServices, dbOK \in BOOLEAN :
         SetDefaultUserService(u, id, dbOK)
    \/ \E u \in Users, id \in 1..MaxServices, dbOK \in BOOLEAN :
         DeleteUserService(u, id, dbOK)
    \/ Tick(MaxClock)

SpecTable == Init /\ [][NextTable]_vars

\* Bursts of media-group photos and the requests they trigger, with the
\* environment key as the backend.
InitMedia ==
    /\ now = 0
    /\ user_services = {}
    /\ nextServiceID = 1
    /\ user_settings = [u \in Users |-> "NoRow"]
    /\ failed_generations = {}
    /\ nextTaskID = 1
    /\ groups = [g \in MediaGroupIDs |-> <<>>]
    /\ nextSweep = SweepPeriod
    /\ appends = 0
    /\ arrived = [g \in MediaGroupIDs |-> <<>>]
    /\ panicked = FALSE
    /\ mu = FreeLock
    /\ saved_prompts = StoredPrompts
    /\ callbacks = [c \in CallbackIDs |-> IdleCallback]
    /\ callers = [c \in CallerIDs |-> IdleCaller]
    /\ probe = NoProbe
    /\ answer = <<>>
    /\ reqs = [r \in 1..MaxRequests |-> IdleReq]
    /\ ticks = 0
    /\ replay = NoReplay
    /\ sent = [t \in 1..MaxRequests |->
                 [notices |-> 0, photos |-> 0, docs |-> 0, fails |-> 0, marks |-> 0]]
    /\ config = [GeminiAPIKey |-> "env-key", GeminiBaseURL |-> ""]

\* A photo of media group g sent as a reply to a text message.
ImageReplyEvent(userID, g, f) ==
    [handler |-> "imageReply", UserID |-> userID, file |-> f, group |-> g,
     replyFile |-> "", replyGroup |-> "", single |-> FALSE,
     paramQuality |-> "", paramRatio |-> ""]

\* A text message sent as a reply to photo f of media group g.
TextReplyEvent(userID, g, f, single) ==
    [handler |-> "text", UserID |-> userID, file |-> "", group |-> "",
     replyFile |-> f, replyGroup |-> g, single |-> single,
     paramQuality |-> "", paramRatio |-> ""]

MediaEvents ==
    {ImageReplyEvent(1, "g1", f) : f \in {"f1", "f2"}}
        \cup {TextReplyEvent(1, "g2", "f1", single) : single \in BOOLEAN}

NextMedia ==
    \/ \E g \in MediaGroupIDs, f \in {"f1", "f2"} : ReceiveGroupPhoto(g, f)
    \/ \E r \in 1..MaxRequests, ev \in MediaEvents : HandleMessage(r, ev, TRUE)
    \/ \E r \in 1..MaxRequests : Collect(r, TRUE, TRUE, 0)
    \/ \E r \in 1..MaxRequests : RetryLoop(r, 0, "e1")

SpecMedia == InitMedia /\ [][NextMedia]_vars

\* Requests on media groups whose downloads, provider calls and store
\* writes may fail.
NextDownload ==
    \/ \E g \in MediaGroupIDs, f \in {"f1", "f2"} : ReceiveGroupPhoto(g, f)
    \/ \E r \in 1..MaxLive, ev \in MediaEvents : HandleMessage(r, ev, TRUE)
    \/ \E r \in 1..MaxRequests, dlFail \in 0..MaxAppends : Collect(r, TRUE, TRUE, dlFail)
    \/ \E r \in 1..MaxRequests, failures \in {0, RetryBudget} : RetryLoop(r, failures, "e1")
    \/ \E r \in 1..MaxRequests, dbOK, sendOK \in BOOLEAN : Exhausted(r, dbOK, sendOK)

SpecDownload == InitMedia /\ [][NextDownload]_vars

\* The media-group cache under the clock and the cleanup goroutine.
NextSweep ==
    \/ \E g \in MediaGroupIDs : ReceiveGroupPhoto(g, "f1")
    \/ Tick(MaxTime)
    \/ Sweep

SpecSweep == Init /\ [][NextSweep]_vars

\* The media-group cache under appends of file IDs of every length.
NextAppend ==
    \E g \in MediaGroupIDs, f \in FileIDs : ReceiveGroupPhoto(g, f)

SpecAppend == Init /\ [][NextAppend]_vars

\* The photo a handler goroutine has received: file IDs long enough for the
\* log line of cacheMediaGroupImage.
PhotoOf == [c \in HandlerCallers |-> IF c = 1 THEN "f1" ELSE IF c = 2 THEN "f2" ELSE "f3"]

\* Handlers appending to and snapshotting the groups while the cleanup
\* goroutine sweeps.
NextLock ==
    \/ \E c \in HandlerCallers, g \in MediaGroupIDs : BeginAppend(c, g, PhotoOf[c])
    \/ \E c \in HandlerCallers, g \in MediaGroupIDs : BeginSnapshot(c, g)
    \/ \E c \in CallerIDs : Lock(c)
    \/ \E c \in HandlerCallers : AppendRead(c)
    \/ \E c \in HandlerCallers : AppendWrite(c)
    \/ \E c \in CallerIDs : Unlock(c)
    \/ \E c \in HandlerCallers : RLock(c)
    \/ \E c \in HandlerCallers : SnapshotCopy(c)
    \/ \E c \in HandlerCallers : RUnlock(c)
    \/ SweepBegin
    \/ SweepPass
    \/ WaitForTicker(MaxTime)

SpecLock == Init /\ [][NextLock]_vars

\* ------------------------------------------------ aspect-ratio resolution
\* The state of the program apart from the call under study.
InitIdle ==
    /\ now = 0
    /\ user_services = {}
    /\ nextServiceID = 1
    /\ user_settings = [u \in Users |-> "NoRow"]
    /\ failed_generations = {}
    /\ nextTaskID = 1
    /\ groups = [g \in MediaGroupIDs |-> <<>>]
    /\ nextSweep = SweepPeriod
    /\ appends = 0
    /\ arrived = [g \in MediaGroupIDs |-> <<>>]
    /\ panicked = FALSE
    /\ mu = FreeLock
    /\ saved_prompts = StoredPrompts
    /\ callbacks = [c \in CallbackIDs |-> IdleCallback]
    /\ callers = [c \in CallerIDs |-> IdleCaller]
    /\ reqs = [r \in 1..MaxRequests |-> IdleReq]
    /\ ticks = 0
    /\ replay = NoReplay
    /\ sent = [t \in 1..MaxRequests |->
                 [notices |-> 0, photos |-> 0, docs |-> 0, fails |-> 0, marks |-> 0]]

\* Widths and heights of the images of the calls: they include 1000 x 600
\* and 1000 x 100, the tie 170 x 240, and sizes whose nearest entry differs
\* by exactly 10% (450 x 880, 1000 x 900, 800 x 900).
ProbeSizes == {100, 170, 240, 450, 600, 800, 880, 900, 1000, 1600}
Undecodable == <<0, 0>>
ProbeImages == (ProbeSizes \X ProbeSizes) \cup {Undecodable}
LaterImages == {Undecodable, <<1000, 100>>, <<600, 600>>}
ProbeImageLists ==
    {<<>>} \cup {<<d>> : d \in ProbeImages}
           \cup {<<d, e>> : d \in ProbeImages, e \in LaterImages}

RatioProbes ==
    {[fn |-> "resolveAspectRatio", requested |-> q, images |-> l] :
        q \in {"", "16:9", "4:5"}, l \in ProbeImageLists}
    \cup {[fn |-> "GetImageInfo", requested |-> "", images |-> <<d>>] :
              d \in ProbeImages}

InitRatio ==
    /\ InitIdle
    /\ config = [GeminiAPIKey |-> "", GeminiBaseURL |-> ""]
    /\ probe \in RatioProbes
    /\ probe.requested \in RatioParams
    /\ answer = <<>>

\* One more call of resolveAspectRatio on the inputs of the probe.
CallResolveAspectRatio ==
    /\ probe.fn = "resolveAspectRatio"
    /\ Len(answer) < MaxCalls
    /\ answer' = Append(answer, resolveAspectRatio(probe.requested, probe.images))
    /\ UNCHANGED <<now, svcVars, user_settings, queueVars, mediaVars, probe, reqs, config, promptVars,
                   lockVars>>

\* One more call of gemini.GetImageInfo on the image of the probe.
CallGetImageInfo ==
    /\ probe.fn = "GetImageInfo"
    /\ Len(answer) < MaxCalls
    /\ answer' = Append(answer, GetImageInfo(probe.images[1]))
    /\ UNCHANGED <<now, svcVars, user_settings, queueVars, mediaVars, probe, reqs, config, promptVars,
                   lockVars>>

NextRatio ==
    \/ CallResolveAspectRatio
    \/ CallGetImageInfo

SpecRatio == InitRatio /\ [][NextRatio]_vars

\* --------------------------------------------------- endpoint construction
\* The service configurations handed to gemini.NewClientWithService.
ProbeServiceConfigs ==
    [Type : {"", "standard", "custom", "vertex", "gcp", "other"},
     Name : {"svc"},
     APIKey : {"", "k1"},
     BaseURL : {"", PlainBaseURL, FullEndpointURL, BadBaseURL},
     ProjectID : {"", "proj"},
     Location : {"", "asia-east1"},
     Model : {"", "m1"}]

InitEndpoint ==
    /\ InitIdle
    /\ config = [GeminiAPIKey |-> "", GeminiBaseURL |-> ""]
    /\ probe \in {[fn |-> "buildGenerateURL", service |-> c] : c \in ProbeServiceConfigs}
    /\ answer = <<>>

\* One more call of buildGenerateURL on a client of the probe's service.
CallBuildGenerateURL ==
    /\ probe.fn = "buildGenerateURL"
    /\ Len(answer) < MaxCalls
    /\ answer' = Append(answer, buildGenerateURL(probe.service))
    /\ UNCHANGED <<now, svcVars, user_settings, queueVars, mediaVars, probe, reqs, config, promptVars,
                   lockVars>>

NextEndpoint == CallBuildGenerateURL

SpecEndpoint == InitEndpoint /\ [][NextEndpoint]_vars

\* ------------------------------------------------------ service resolution
\* The environment of the process: GEMINI_API_KEY set or not.
EnvConfigs ==
    {[GeminiAPIKey |-> k, GeminiBaseURL |-> b] :
        k \in {"", "env-key"}, b \in {"", PlainBaseURL}}

InitResolve ==
    /\ InitIdle
    /\ config \in EnvConfigs
    /\ probe = NoProbe
    /\ answer = <<>>

\* A call of Bot.resolveServiceConfig(userID) on the current table.
CallResolveServiceConfig(userID, dbOK) ==
    /\ \E res \in resolveServiceConfig(user_services, userID, dbOK) :
          /\ probe' = [fn |-> "resolveServiceConfig", userID |-> userID, dbOK |-> dbOK]
          /\ answer' = <<res>>
    /\ UNCHANGED <<now, svcVars, user_settings, queueVars, mediaVars, reqs, config, promptVars, lockVars>>

\* The table changes until a resolution is looked at; the table a
\* resolution saw stays in user_services.
NextResolve ==
    \/ /\ probe = NoProbe
       /\ \E u \in Users, cfg \in BotServiceConfigs, setAsDefault, dbOK \in BOOLEAN :
             AddUserService(u, cfg, setAsDefault, dbOK)
    \/ /\ probe = NoProbe
       /\ \E u \in Users, id \in 1..MaxServices, dbOK \in BOOLEAN :
             SetDefaultUserService(u, id, dbOK)
    \/ /\ probe = NoProbe
       /\ \E u \in Users, id \in 1..MaxServices, dbOK \in BOOLEAN :
             DeleteUserService(u, id, dbOK)
    \/ \E u \in Users, dbOK \in BOOLEAN : CallResolveServiceConfig(u, dbOK)

SpecResolve == InitResolve /\ [][NextResolve]_vars

\* ------------------------------------------------ replay of a stored task
\* Payloads of rows the table file holds when the process starts: written
\* with the service of the failed request, with a service that has no
\* API key, or without the service field.
StoredPayloads ==
    {marshalPayload([Prompt |-> "prompt", Quality |-> "2K", AspectRatio |-> "",
                     ImageFileIDs |-> <<>>, Service |-> svc]) :
        svc \in BotServiceConfigs \cup {EmptyServiceConfig}}
        \cup {[valid |-> TRUE, obj |-> [prompt |-> "prompt", quality |-> "2K"]]}

\* NewDatabase opens the table file: one stored task, owned by user 1.
InitReplay ==
    /\ now = 0
    /\ user_services = {}
    /\ nextServiceID = 1
    /\ user_settings = [u \in Users |-> "NoRow"]
    /\ \E payload \in StoredPayloads :
          failed_generations = AddFailedGeneration({}, 1, 1, 1, payload, "e1", 0)
    /\ nextTaskID = 2
    /\ groups = [g \in MediaGroupIDs |-> <<>>]
    /\ nextSweep = SweepPeriod
    /\ appends = 0
    /\ arrived = [g \in MediaGroupIDs |-> <<>>]
    /\ panicked = FALSE
    /\ mu = FreeLock
    /\ saved_prompts = StoredPrompts
    /\ callbacks = [c \in CallbackIDs |-> IdleCallback]
    /\ callers = [c \in CallerIDs |-> IdleCaller]
    /\ probe = NoProbe
    /\ answer = <<>>
    /\ reqs = [r \in 1..MaxRequests |-> IdleReq]
    /\ ticks = 0
    /\ replay = NoReplay
    /\ sent = [t \in 1..MaxRequests |->
                 [notices |-> 0, photos |-> 0, docs |-> 0, fails |-> 0, marks |-> 0]]
    /\ config \in EnvConfigs

\* The steps of a replay that fail in the runs of SpecReplay.
ServiceReplayFailures == {"none", "resolve", "generate", "send2"}

\* The owner and another user change their services between the ticks of the
\* scheduler, which replays the stored task.
NextReplay ==
    \/ \E u \in Users, cfg \in BotServiceConfigs : AddUserService(u, cfg, TRUE, TRUE)
    \/ \E u \in Users, id \in 1..MaxServices : DeleteUserService(u, id, TRUE)
    \/ \E failAt \in ServiceReplayFailures, writeOK \in BOOLEAN :
         RetryOneFailedGeneration(failAt, writeOK)

SpecReplay == InitReplay /\ [][NextReplay]_vars

\* ------------------------------------------------ the service commands
\* Variant of the rollback that keeps the statements already executed.
Rollback_Keep(before, dirty) == dirty

\* The deferred tx.Rollback() of a transaction that returns an error: the
\* table is as before the transaction, whatever its statements had done.
Rollback(before, dirty) == before

\* Database.AddUserService, statement by statement: the UPDATE that clears
\* the defaults, then the INSERT, which fails on UNIQUE(user_id, name).
RunAddUserService(rows, id, userID, cfg, setAsDefault, createdAt, dbOK) ==
    LET cleared == IF setAsDefault THEN ClearDefaults(rows, userID) ELSE rows
    IN  IF \E s \in UserRows(cleared, userID) : s.Name = cfg.Name
        THEN [rows |-> Rollback(rows, cleared), err |-> "UNIQUE constraint failed"]
        ELSE IF ~dbOK
        THEN [rows |-> Rollback(rows, cleared), err |-> "db error"]
        ELSE [rows |-> AddUserServiceTx(rows, id, userID, cfg, setAsDefault, createdAt),
              err |-> ""]

\* Database.SetDefaultUserService, statement by statement: the UPDATE that
\* clears the defaults, then the UPDATE of the row, which affects no row
\* when the user does not own serviceID.
RunSetDefaultUserService(rows, userID, serviceID, dbOK) ==
    LET cleared == ClearDefaults(rows, userID)
    IN  IF ~\E s \in UserRows(cleared, userID) : s.ID = serviceID
        THEN [rows |-> Rollback(rows, cleared), err |-> "sql: no rows in result set"]
        ELSE IF ~dbOK
        THEN [rows |-> Rollback(rows, cleared), err |-> "db error"]
        ELSE [rows |-> SetDefaultUserServiceTx(rows, userID, serviceID), err |-> ""]

\* Bot.cmdServiceAdd: "/service add" stores the service as the default and
\* answers with the error or with the new ID.
CmdServiceAdd(userID, cfg, dbOK) ==
    LET run == RunAddUserService(user_services, nextServiceID, userID, cfg, TRUE, now, dbOK)
    IN  /\ nextServiceID <= MaxServices
        /\ user_services' = run.rows
        /\ nextServiceID' = IF run.err = "" THEN nextServiceID + 1 ELSE nextServiceID
        /\ probe' = [fn |-> "cmdServiceAdd", userID |-> userID, name |-> cfg.Name,
                     serviceID |-> 0, before |-> user_services]
        /\ answer' = <<run.err>>
        /\ UNCHANGED <<lockVars, now, config, promptVars, user_settings, queueVars, mediaVars, reqs>>

\* Bot.cmdServiceUse: "/service use <id>" makes the service the default and
\* answers with the error or with the confirmation.
CmdServiceUse(userID, serviceID, dbOK) ==
    LET run == RunSetDefaultUserService(user_services, userID, serviceID, dbOK)
    IN  /\ user_services' = run.rows
        /\ probe' = [fn |-> "cmdServiceUse", userID |-> userID, name |-> "",
                     serviceID |-> serviceID, before |-> user_services]
        /\ answer' = <<run.err>>
        /\ UNCHANGED <<lockVars, now, config, promptVars, nextServiceID, user_settings, queueVars,
                       mediaVars, reqs>>

NextCommands ==
    \/ \E u \in Users, cfg \in TableServiceConfigs, dbOK \in BOOLEAN :
         CmdServiceAdd(u, cfg, dbOK)
    \/ \E u \in Users, id \in 1..MaxServices, dbOK \in BOOLEAN :
         CmdServiceUse(u, id, dbOK)

SpecCommands == Init /\ [][NextCommands]_vars

\* ------------------------------------------------ a queue of several tasks
\* The steps of a replay that fail in the runs of SpecQueue.
QueueReplayFailures == {"none", "read", "generate"}

\* Text requests of user 1 that run side by side, exhaust their tries and
\* are enqueued, and the scheduler replaying the queue.
NextQueue ==
    \/ \E cfg \in BotServiceConfigs : AddUserService(1, cfg, TRUE, TRUE)
    \/ \E r \in 1..MaxRequests : HandleMessage(r, TextEvent(1, "", "", ""), TRUE)
    \/ \E r \in 1..MaxRequests : Collect(r, TRUE, TRUE, 0)
    \/ \E r \in 1..MaxRequests, failures \in {0, RetryBudget} : RetryLoop(r, failures, "e1")
    \/ \E r \in 1..MaxRequests : Exhausted(r, TRUE, TRUE)
    \/ \E failAt \in QueueReplayFailures, writeOK \in BOOLEAN :
         RetryOneFailedGeneration(failAt, writeOK)

SpecQueue == Init /\ [][NextQueue]_vars

\* ------------------------------------------------------ saved prompts
\* Bot.Run starts handleCallback on a goroutine of its own for every callback
\* query; "default:<id>" goes to callbackDefault, which scans the id (0 when
\* the text is no number) and calls SetDefaultPrompt.
HandleCallback(c, userID, id) ==
    /\ callbacks[c].pc = "idle"
    /\ callbacks' = [callbacks EXCEPT ![c] =
         [pc |-> "clear", From |-> userID, id |-> id, answer |-> ""]]
    /\ UNCHANGED <<probeVars, lockVars, now, config, svcVars, user_settings, queueVars,
                   mediaVars, reqs, saved_prompts>>

\* UPDATE saved_prompts SET is_default = FALSE WHERE user_id = ?
ClearDefaultPrompts(rows, userID) ==
    {IF p.UserID = userID THEN [p EXCEPT !.IsDefault = FALSE] ELSE p : p \in rows}

\* UPDATE saved_prompts SET is_default = TRUE WHERE id = ? AND user_id = ?
MarkDefaultPrompt(rows, userID, promptID) ==
    {IF p.ID = promptID /\ p.UserID = userID THEN [p EXCEPT !.IsDefault = TRUE] ELSE p :
        p \in rows}

\* Database.SetDefaultPrompt, first statement, run on the shared *sql.DB
\* outside any transaction; dbOK = FALSE is a failed Exec, which ends the
\* call and makes callbackDefault answer that the setting failed.
SetDefaultPrompt_Clear(c, dbOK) ==
    LET cb == callbacks[c]
    IN  /\ cb.pc = "clear"
        /\ saved_prompts' =
             IF dbOK THEN ClearDefaultPrompts(saved_prompts, cb.From) ELSE saved_prompts
        /\ callbacks' = [callbacks EXCEPT ![c] =
             IF dbOK THEN [cb EXCEPT !.pc = "set"]
             ELSE [cb EXCEPT !.pc = "done", !.answer = "failed"]]
        /\ UNCHANGED <<probeVars, lockVars, now, config, svcVars, user_settings, queueVars,
                       mediaVars, reqs>>

\* Database.SetDefaultPrompt, second statement, and the answer of
\* callbackDefault.
SetDefaultPrompt_Mark(c, dbOK) ==
    LET cb == callbacks[c]
    IN  /\ cb.pc = "set"
        /\ saved_prompts' =
             IF dbOK THEN MarkDefaultPrompt(saved_prompts, cb.From, cb.id) ELSE saved_prompts
        /\ callbacks' = [callbacks EXCEPT ![c] =
             [cb EXCEPT !.pc = "done", !.answer = IF dbOK THEN "set" ELSE "failed"]]
        /\ UNCHANGED <<probeVars, lockVars, now, config, svcVars, user_settings, queueVars,
                       mediaVars, reqs>>

\* callbackDefault returns and the goroutine ends.
CallbackReturn(c) ==
    /\ callbacks[c].pc = "done"
    /\ callbacks' = [callbacks EXCEPT ![c] = IdleCallback]
    /\ UNCHANGED <<probeVars, lockVars, now, config, svcVars, user_settings, queueVars,
                   mediaVars, reqs, saved_prompts>>

NextPrompts ==
    \/ \E c \in CallbackIDs, u \in Users, id \in 0..MaxPrompts : HandleCallback(c, u, id)
    \/ \E c \in CallbackIDs, dbOK \in BOOLEAN : SetDefaultPrompt_Clear(c, dbOK)
    \/ \E c \in CallbackIDs, dbOK \in BOOLEAN : SetDefaultPrompt_Mark(c, dbOK)
    \/ \E c \in CallbackIDs : CallbackReturn(c)

SpecPrompts == Init /\ [][NextPrompts]_vars

\* ------------------------------------------------ the scheduler for ever
\* Variant of the selection that reads the oldest task.
GetRandomFailedGeneration_Oldest(rows) == {t \in rows : \A o \in rows : t.ID <= o.ID}

\* Database.GetRandomFailedGeneration: ORDER BY RANDOM() LIMIT 1 may return
\* any row of the table.
GetRandomFailedGeneration(rows) == rows

\* The retryCount of the rows, counted up to MaxRetryCount: the scheduler
\* does not read it.
CapRetryCount(rows) ==
    {[t EXCEPT !.RetryCount = IF @ > MaxRetryCount THEN MaxRetryCount ELSE @] : t \in rows}

\* A tick of Bot.retryFailedGenerations, whose ticker loop never ends: the
\* ticks are not counted.
ReplayForever(failAt, writeOK) ==
    /\ \E task \in GetRandomFailedGeneration(failed_generations) :
       \E res \in resolveServiceConfig(user_services, task.UserID, failAt # "resolve") :
          LET plan == ReplayPlan(task, res, failAt)
          IN  /\ failed_generations' =
                   CapRetryCount(ReplayWrite(failed_generations, plan, writeOK, now))
              /\ replay' = [plan EXCEPT
                   !.resolvedNow = ResolvedNow(user_services, task.UserID),
                   !.wrote = writeOK]
    /\ UNCHANGED <<probeVars, lockVars, now, config, promptVars, svcVars, user_settings, nextTaskID,
                   ticks, sent, mediaVars, reqs>>

\* The tick reads task id, and neither the provider, nor a send, nor the
\* DELETE fails for a reason outside the task.
ReplayOf(id) == ReplayForever("none", TRUE) /\ replay'.task = id

NextFair ==
    \/ \E cfg \in BotServiceConfigs : AddUserService(1, cfg, TRUE, TRUE)
    \/ \E r \in 1..MaxRequests : HandleMessage(r, TextEvent(1, "", "", ""), TRUE)
    \/ \E r \in 1..MaxRequests : Collect(r, TRUE, TRUE, 0)
    \/ \E r \in 1..MaxRequests, failures \in {0, RetryBudget} : RetryLoop(r, failures, "e1")
    \/ \E r \in 1..MaxRequests : Exhausted(r, TRUE, TRUE)
    \/ \E failAt \in {"none", "generate"}, writeOK \in BOOLEAN : ReplayForever(failAt, writeOK)

\* Fair selection: a task that stays queued is read again and again by ticks
\* on which nothing outside the task fails.
SpecFair ==
    /\ Init
    /\ [][NextFair]_vars
    /\ \A id \in 1..MaxRequests : WF_vars(ReplayOf(id))

\* ------------------------------------------- properties of the request path
AllTriesFailed(rq) ==
    /\ Len(rq.calls) = RetryBudget
    /\ \A i \in 1..Len(rq.calls) : rq.calls[i].err # ""

ResolvedQuality(rq) ==
    IF rq.paramQuality # "" THEN rq.paramQuality
    ELSE IF rq.stored # "" THEN rq.stored ELSE "2K"

RemovedTasks == (1..(nextTaskID - 1)) \ TaskIDs(failed_generations)

\* C1 (as the spec states it): a live request is in the queue's history if
\* and only if all 6 of its tries failed, and every failed replay of a task
\* raises its retryCount by exactly 1.
C1_Original ==
    /\ \A r \in 1..MaxRequests :
         reqs[r].pc = "done" => (reqs[r].enqueued = 1 <=> AllTriesFailed(reqs[r]))
    /\ \A t \in failed_generations : t.RetryCount = sent[t.ID].fails

\* C1 (amended): a live request is enqueued at most once and only after all
\* 6 of its tries failed; it is enqueued exactly then when the INSERT
\* succeeds (a failed INSERT is logged and the request is not queued).  A
\* task enters with retryCount = 0 and no lastRetryAt; a failed replay
\* leaves the task queued and raises its retryCount by exactly 1 when its
\* UPDATE succeeds, and leaves the row as it was when the UPDATE fails.
C1_EnqueuedOnExhaustion ==
    /\ \A r \in 1..MaxRequests :
         /\ reqs[r].enqueued <= 1
         /\ reqs[r].enqueued = 1 => AllTriesFailed(reqs[r])
         /\ (reqs[r].pc = "done" /\ AllTriesFailed(reqs[r]))
               => (reqs[r].enqueued = 1 <=> ~reqs[r].enqueueErr)
    /\ nextTaskID - 1 = Cardinality({r \in 1..MaxRequests : reqs[r].enqueued = 1})
    /\ \A t \in failed_generations :
         /\ t.RetryCount = sent[t.ID].marks
         /\ sent[t.ID].marks <= sent[t.ID].fails
         /\ t.LastRetryAt.Valid <=> t.RetryCount > 0
    /\ (replay.task # 0 /\ replay.result # "success")
          => replay.task \in TaskIDs(failed_generations)

C1_Witness ==
    \E t \in failed_generations :
        /\ t.RetryCount = 1
        /\ sent[t.ID].fails = 1
        /\ reqs[t.ReplyTo].enqueued = 1

\* C2: a live request makes one provider call per try and at most 6 tries;
\* every try before the last one failed; a delivered request ends with a
\* successful try, and a request is exhausted only after 6 failed tries.
C2_BoundedTries ==
    \A r \in 1..MaxRequests :
        LET rq == reqs[r]
        IN  /\ rq.tries <= RetryBudget
            /\ Len(rq.calls) = rq.tries
            /\ \A i \in 1..(Len(rq.calls) - 1) : rq.calls[i].err # ""
            /\ rq.outcome = "delivered"
                  => (rq.tries >= 1 /\ rq.calls[rq.tries].err = "")
            /\ (rq.pc = "exhausted" \/ rq.outcome = "queuedNotice")
                  => AllTriesFailed(rq)

C2_Witness ==
    \E r \in 1..MaxRequests :
        /\ reqs[r].outcome = "delivered"
        /\ reqs[r].tries = 3

C5_RemovedOnlyAfterSuccess ==
    /\ \A id \in RemovedTasks : sent[id].docs >= 1
    /\ \A id \in 1..(nextTaskID - 1) :
         (sent[id].fails > 0 /\ sent[id].docs = 0)
            => id \in TaskIDs(failed_generations)

C5_Witness ==
    \E t \in failed_generations :
        /\ sent[t.ID].fails = MaxTicks
        /\ t.RetryCount = MaxTicks

\* C6 (as the spec states it): a task that was removed got exactly one
\* success notice, one preview and one document over its whole life, and a
\* successful replay removes the task.
C6_Original ==
    /\ \A id \in RemovedTasks :
         sent[id].notices = 1 /\ sent[id].photos = 1 /\ sent[id].docs = 1
    /\ replay.result = "success" => replay.task \in RemovedTasks

\* C6 (amended): a replay that succeeds sends exactly one success notice, one
\* preview and one document, and removes the task when its DELETE succeeds;
\* over the life of a removed task the chat got at least one of each, and
\* never fewer notices than previews or fewer previews than documents.
C6_OneDeliveryPerSuccessfulReplay ==
    /\ replay.result = "success"
          => /\ replay.notices = 1 /\ replay.photos = 1 /\ replay.docs = 1
             /\ replay.wrote => replay.task \in RemovedTasks
    /\ \A id \in RemovedTasks :
         /\ sent[id].docs >= 1
         /\ sent[id].photos >= sent[id].docs
         /\ sent[id].notices >= sent[id].photos

C6_Witness ==
    /\ replay.result = "success"
    /\ replay.wrote
    /\ replay.task \in RemovedTasks
    /\ sent[replay.task].notices = 2
    /\ sent[replay.task].docs = 1

\* C7 (as the spec states it): a request whose backend configuration is
\* missing or invalid consumes no try and is never enqueued, and no replay
\* runs on such a configuration.
C7_Original ==
    /\ \A r \in 1..MaxRequests :
         (reqs[r].pc # "idle" /\ ~buildGenerateURL(reqs[r].service).ok)
            => (reqs[r].tries = 0 /\ reqs[r].enqueued = 0)
    /\ replay.calls = 1 => buildGenerateURL(replay.service).ok

\* C8 (as the spec states it): the backend a replay calls is one the
\* resolver returns for the task's owner at replay time.
C8_Original ==
    replay.calls = 1 => replay.service \in replay.resolvedNow

\* C8 (amended): a replay calls the backend captured in the task when the
\* request failed whenever that snapshot carries an API key, even if the
\* owner's default changed since; only a snapshot without a key is replaced
\* by the backend resolved at replay time.
C8_ReplayUsesSnapshot ==
    replay.calls = 1 =>
        /\ replay.snapshot = reqs[replay.req].service
        /\ replay.snapshot.APIKey # "" => replay.service = replay.snapshot
        /\ replay.snapshot.APIKey = "" => replay.service \in replay.resolvedNow

C8_Witness ==
    /\ replay.calls = 1
    /\ replay.resolvedNow # {}
    /\ replay.service \notin replay.resolvedNow
    /\ replay.service = reqs[replay.req].service


\* --------------------------------------- properties of the services table
DefaultsOf(userID) == {s \in UserRows(user_services, userID) : s.IsDefault}

\* C4: after any sequence of add, delete and set-default transactions, of
\* either user and in any interleaving, a user has at most one default
\* service, and exactly one whenever the user owns a service.
C4_OneDefault ==
    \A u \in Users :
        /\ Cardinality(DefaultsOf(u)) <= 1
        /\ UserRows(user_services, u) # {} => Cardinality(DefaultsOf(u)) = 1

C4_Witness ==
    /\ nextServiceID = 4
    /\ {s.ID : s \in UserRows(user_services, 1)} = {1, 3}
    /\ \E s \in DefaultsOf(1) : s.ID = 1

\* ------------------------------------------ properties of the media cache
\* The requests a photo event of media group g started and that entered the
\* retry loop.
BurstSequences(g) ==
    {r \in 1..MaxRequests :
        /\ reqs[r].handler = "imageReply"
        /\ reqs[r].group = g
        /\ reqs[r].tries >= 1}

\* C9 (as the spec states it): the photo events of one media group start at
\* most one retry sequence.
C9_Original ==
    \A g \in MediaGroupIDs : Cardinality(BurstSequences(g)) <= 1

LastSweep == nextSweep - SweepPeriod

\* C10 (as the spec states it): a group whose oldest entry is more than 10
\* minutes old has an empty snapshot.
C10_Original ==
    \A g \in MediaGroupIDs :
        (Len(groups[g]) > 0 /\ now - groups[g][1].Timestamp > EvictAge)
            => getMediaGroupImages(groups, g) = <<>>

\* C10 (amended): a snapshot is empty for every group whose oldest entry was
\* more than 10 minutes old at the latest cleanup pass; the pass runs every 5
\* minutes, so a snapshot may return a group until its oldest entry is 15
\* minutes old, and no longer.
C10_EmptyAfterSweep ==
    \A g \in MediaGroupIDs :
        /\ (LastSweep > 0 /\ Len(groups[g]) > 0
              /\ LastSweep - groups[g][1].Timestamp > EvictAge)
             => getMediaGroupImages(groups, g) = <<>>
        /\ (Len(groups[g]) > 0
              /\ now - groups[g][1].Timestamp > EvictAge + SweepPeriod)
             => getMediaGroupImages(groups, g) = <<>>

C10_Witness ==
    /\ appends = 2
    /\ groups["g1"] = <<>>
    /\ Len(groups["g2"]) = 1
    /\ now - groups["g2"][1].Timestamp > EvictAge


\* C11: a snapshot of a group is the sequence of the file IDs appended to it,
\* in the order of the appends, one entry per append (a file ID appended
\* twice appears twice); an append to one group leaves the others as they
\* were.
C11_ArrivalOrder ==
    \A g \in MediaGroupIDs : getMediaGroupImages(groups, g) = arrived[g]

C11_Witness ==
    /\ getMediaGroupImages(groups, "g1") = <<"f2", "f1", "f2">>
    /\ groups["g2"] = <<>>

\* C12 (as the spec states it): an append succeeds for every file ID.
C12_Original == ~panicked


\* C13: the aspect ratio of a request is the one resolved after the
\* downloads, from the explicit parameter and the downloaded images, and
\* every try of the request passes this same value to the provider.
C13_RatioFrozen ==
    \A r \in 1..MaxRequests :
        \A i \in 1..Len(reqs[r].calls) :
            /\ reqs[r].calls[i].aspectRatio = reqs[r].aspectRatio
            /\ reqs[r].calls[i].aspectRatio =
                  resolveAspectRatio(reqs[r].paramRatio, downloadImages(reqs[r].images))

C13_Witness ==
    \E r \in 1..MaxRequests :
        /\ reqs[r].tries = RetryBudget
        /\ reqs[r].paramRatio = ""
        /\ reqs[r].images = <<"f1">>
        /\ reqs[r].calls[RetryBudget].aspectRatio = "16:9"


\* ------------------------------------- properties of aspect-ratio resolution
CatalogNames == {supportedRatios[i][1] : i \in 1..Len(supportedRatios)}

\* |w/h - n/d| <= |w/h - n2/d2| in exact arithmetic.
NoFarther(dims, e, e2) ==
    Abs(dims[1] * e[3] - e[2] * dims[2]) * e2[3]
        <= Abs(dims[1] * e2[3] - e2[2] * dims[2]) * e[3]

\* The names of the catalog entries with the least |w/h - n/d|.
NearestNames(dims) ==
    {supportedRatios[i][1] : i \in
        {j \in 1..Len(supportedRatios) :
            \A k \in 1..Len(supportedRatios) :
                NoFarther(dims, supportedRatios[j], supportedRatios[k])}}

\* |w/h - n/d| against 10% of w/h, in exact arithmetic.
MoreThanTenth(dims, e) ==
    10 * Abs(dims[1] * e[3] - e[2] * dims[2]) > dims[1] * e[3]

NearestIsFar(dims) ==
    \A i \in 1..Len(supportedRatios) : MoreThanTenth(dims, supportedRatios[i])

Decodable(dims) == dims[1] > 0 /\ dims[2] > 0

ImageDecides ==
    /\ probe.fn = "resolveAspectRatio"
    /\ probe.requested = ""
    /\ Len(probe.images) >= 1
    /\ Decodable(probe.images[1])

\* C14: with no explicit ratio and a first image whose nearest catalog entry
\* differs from width/height by more than 10% of it, the resolution returns
\* the empty ratio and not an entry of the catalog.
C14_Original ==
    (ImageDecides /\ NearestIsFar(probe.images[1]))
        => \A i \in 1..Len(answer) : answer[i] = "" /\ answer[i] \notin CatalogNames

\* C15: with no explicit ratio and a first image whose nearest catalog entry
\* is within 10% of width/height, the resolution returns an entry with the
\* least absolute difference to width/height.
C15_Original ==
    (ImageDecides /\ ~NearestIsFar(probe.images[1]))
        => \A i \in 1..Len(answer) : answer[i] \in NearestNames(probe.images[1])

C17_Original ==
    (probe.fn = "GetImageInfo" /\ Decodable(probe.images[1]))
        => \A i \in 1..Len(answer) :
              /\ ~answer[i].err
              /\ answer[i].AspectRatio # ""
              /\ answer[i].AspectRatio \in NearestNames(probe.images[1])


\* ------------------------------------ properties of endpoint construction
VertexWithoutProject ==
    /\ probe.fn = "buildGenerateURL"
    /\ probe.service.Type \in {"vertex", "gcp"}
    /\ (probe.service.ProjectID = "" \/ probe.service.Location = "")

ServiceOfRow(s) ==
    [Type |-> s.Type, Name |-> s.Name, APIKey |-> s.APIKey, BaseURL |-> s.BaseURL,
     ProjectID |-> s.ProjectID, Location |-> s.Location, Model |-> s.Model]

\* The result the three-step precedence prescribes for the user: the stored
\* default, else the environment key as a Standard service, else the
\* no-service error.
FollowsPrecedence(userID, res) ==
    IF DefaultsOf(userID) # {}
    THEN /\ res.err = ""
         /\ \E s \in DefaultsOf(userID) : res.service = ServiceOfRow(s)
    ELSE IF config.GeminiAPIKey # ""
    THEN /\ res.err = ""
         /\ res.service.Type = ServiceTypeStandard
         /\ res.service.Name = "env-default"
         /\ res.service.APIKey = config.GeminiAPIKey
    ELSE res.err = "no service configured"

\* C19 as stated: a resolution returns the stored default when there is one,
\* else the environment fallback when the key is set, else the no-service
\* error.
C19_Original ==
    probe.fn = "resolveServiceConfig" => FollowsPrecedence(probe.userID, answer[1])

\* C19: a resolution whose query of the store succeeds returns the stored
\* default when there is one, else the environment fallback when the key is
\* set, else the no-service error; a resolution whose query fails returns
\* the store's error and no service.
C19_PrecedenceWhenStoreAnswers ==
    probe.fn = "resolveServiceConfig"
        => IF probe.dbOK
           THEN FollowsPrecedence(probe.userID, answer[1])
           ELSE answer[1] = [err |-> "db error", service |-> EmptyServiceConfig]

C19_Witness ==
    /\ probe.fn = "resolveServiceConfig"
    /\ probe.dbOK
    /\ config.GeminiAPIKey = "env-key"
    /\ DefaultsOf(probe.userID) # {}
    /\ answer[1].err = ""
    /\ answer[1].service.APIKey = "k2"


\* ------------------------------- properties of a request without a service
\* C20: a live request whose service resolution failed ends with the error
\* reply: it makes no provider call, collects and downloads no image, and
\* adds nothing to the failed-generation queue.
C20_NoWorkWithoutService ==
    \A r \in 1..MaxRequests :
        reqs[r].serviceErr # ""
            => /\ reqs[r].pc = "done"
               /\ reqs[r].outcome = "noService"
               /\ reqs[r].tries = 0
               /\ reqs[r].calls = <<>>
               /\ reqs[r].images = <<>>
               /\ reqs[r].enqueued = 0
               /\ ~reqs[r].enqueueErr
               /\ \A t \in failed_generations : t.ReplyTo # r

C20_Witness ==
    \E r \in 1..MaxRequests :
        /\ reqs[r].serviceErr = "no service configured"
        /\ reqs[r].file # ""
        /\ reqs[r].pc = "done"
        /\ reqs[r].outcome = "noService"


\* ------------------------------------- properties of the services table
\* The user's rows after the step, and the defaults among them.
UserRowsAfter(userID) == {s \in user_services' : s.UserID = userID}
DefaultsAfter(userID) == {s \in UserRowsAfter(userID) : s.IsDefault}

\* The row is the one created last among the rows (AUTOINCREMENT ids grow
\* with every insert).
CreatedLast(s, rows) == \A t \in rows : t.ID <= s.ID

\* What C21 asks of a step that deletes row d of the user.
DeleteOutcome(userID, d) ==
    IF d.IsDefault
    THEN IF UserRowsAfter(userID) = {}
         THEN DefaultsAfter(userID) = {}
         ELSE /\ Cardinality(DefaultsAfter(userID)) = 1
              /\ \A s \in DefaultsAfter(userID) : CreatedLast(s, UserRowsAfter(userID))
    ELSE {s.ID : s \in DefaultsAfter(userID)} = {s.ID : s \in DefaultsOf(userID)}

\* C21: a delete of the user's default service makes the most recently
\* created of the user's remaining services the default, or leaves no
\* default when none remains; a delete of another service leaves the
\* default unchanged.
C21_Original ==
    [][\A u \in Users, id \in 1..MaxServices :
          (DeleteUserService(u, id, TRUE) /\ user_services' # user_services)
              => \A d \in UserRows(user_services, u) :
                    d.ID = id => DeleteOutcome(u, d)]_vars

\* What C22 asks of a step that adds row n for the user.
AddOutcome(userID, n, setAsDefault) ==
    IF setAsDefault \/ UserRows(user_services, userID) = {}
    THEN DefaultsAfter(userID) = {n}
    ELSE /\ ~n.IsDefault
         /\ {s.ID : s \in DefaultsAfter(userID)} = {s.ID : s \in DefaultsOf(userID)}
         /\ DefaultsOf(userID) # {}

\* C22: an add with setAsDefault = TRUE makes the new service the user's
\* only default; an add with setAsDefault = FALSE leaves the user's default
\* as it was, except that the user's first service becomes the default.
C22_AddAndDefault ==
    [][\A u \in Users, cfg \in TableServiceConfigs, setAsDefault \in BOOLEAN :
          (AddUserService(u, cfg, setAsDefault, TRUE) /\ user_services' # user_services)
              => \E n \in UserRowsAfter(u) :
                    /\ n.ID = nextServiceID
                    /\ n.Name = cfg.Name
                    /\ AddOutcome(u, n, setAsDefault)]_vars

C22_Witness ==
    \E a, b \in UserRows(user_services, 1) :
        /\ a.ID < b.ID
        /\ a.CreatedAt < b.CreatedAt
        /\ a.IsDefault
        /\ ~b.IsDefault
        /\ \E c \in UserRows(user_services, 2) : c.ID > b.ID /\ c.IsDefault


\* ------------------------------------ properties of terminal live errors
\* The request ran out of tries and its handler returned.
ExhaustedAndDone(rq) == AllTriesFailed(rq) /\ rq.pc = "done"

NoticeShown(rq) == rq.outcome = "queuedNotice" /\ ~rq.noticeErr

ReplayEndedInFailure ==
    /\ replay.task # 0
    /\ replay.wrote
    /\ replay.result \in {"resolveErr", "downloadErr", "genErr", "sendErr"}

MessagesOfReplay == replay.notices + replay.photos + replay.docs

\* C24 as stated: a replay that ends in failure sends no message to the chat.
C24_Original == ReplayEndedInFailure => MessagesOfReplay = 0

\* C24: a replay that fails before the delivery (resolution, download or
\* generation error) sends no message to the chat.  A replay whose delivery
\* fails is recorded as failed too, and the chat has then received the
\* messages sent before the failing one: nothing, the success notice, or
\* the notice and the preview, never the document.
C24_SilentUnlessDeliveryStarted ==
    ReplayEndedInFailure
        => /\ replay.task \in TaskIDs(failed_generations)
           /\ replay.result # "sendErr" => MessagesOfReplay = 0
           /\ replay.result = "sendErr"
                 => /\ replay.docs = 0
                    /\ replay.photos <= replay.notices
                    /\ replay.notices <= 1

C24_Witness ==
    /\ ReplayEndedInFailure
    /\ replay.result = "genErr"
    /\ replay.http
    /\ MessagesOfReplay = 0
    /\ \E t \in failed_generations : t.ID = replay.task /\ t.RetryCount = 1


\* ------------------------------------------ properties of a failed download
\* C25: a failed fetch of the k-th input image ends the live request: the
\* handler has fetched images 1..k once each, reports position k, makes no
\* provider call and adds nothing to the failed-generation queue.
C25_DownloadFailureIsTerminal ==
    \A r \in 1..MaxRequests :
        reqs[r].failedAt > 0
            => /\ reqs[r].pc = "done"
               /\ reqs[r].outcome = "downloadFailed"
               /\ reqs[r].failedAt \in 1..Len(reqs[r].images)
               /\ reqs[r].fetches = reqs[r].failedAt
               /\ reqs[r].tries = 0
               /\ reqs[r].calls = <<>>
               /\ reqs[r].enqueued = 0
               /\ ~reqs[r].enqueueErr
               /\ \A t \in failed_generations : t.ReplyTo # r

C25_Witness ==
    \E r \in 1..MaxRequests :
        /\ reqs[r].failedAt = 2
        /\ Len(reqs[r].images) = 3
        /\ reqs[r].outcome = "downloadFailed"


\* ------------------------------------------ properties of the task store
\* The columns of a row of failed_generations: none of them is a status.
TaskColumns ==
    {"ID", "UserID", "ReplyTo", "Payload", "LastError", "RetryCount", "CreatedAt",
     "LastRetryAt"}

\* C26: a task enters the store with retryCount = 0, and no step of enqueue,
\* replay, mark-retry or delete lowers the retryCount of a stored task (a
\* step raises it by 1 at most); a row has no succeeded state, and the task
\* of a successful replay whose DELETE was done is absent.
C26_RetryCountMonotone ==
    [][/\ \A t \in failed_generations' :
            /\ DOMAIN t = TaskColumns
            /\ t.ID \notin TaskIDs(failed_generations)
                  => /\ t.RetryCount = 0
                     /\ ~t.LastRetryAt.Valid
                     /\ t.ID = nextTaskID
            /\ \A o \in failed_generations :
                  o.ID = t.ID => t.RetryCount \in {o.RetryCount, o.RetryCount + 1}
       /\ (replay'.result = "success" /\ replay'.wrote)
             => replay'.task \notin TaskIDs(failed_generations')]_vars

C26_Witness ==
    \E t \in failed_generations :
        /\ t.RetryCount = MaxTicks
        /\ t.LastRetryAt.Valid
        /\ sent[t.ID].fails = MaxTicks


Count(seq, f) == Cardinality({i \in DOMAIN seq : seq[i] = f})
FilesOf(S, f) == Cardinality({d \in S : callers[d].f = f})
InCriticalSection(g) ==
    {d \in AppendCallers(g) : callers[d].pc \in {"read", "write", "unlock"}}
Evicted(g) == g \in callers[CleanupCaller].evicted
SnapshotsDone(g) ==
    {c \in HandlerCallers :
        callers[c].op = "snapshot" /\ callers[c].g = g /\ callers[c].pc = "done"}

\* C28: under every interleaving of append, snapshot and sweep callers, a
\* group that no sweep has evicted holds each returned append exactly once
\* and nothing but the appends that got the lock, and a snapshot of it holds
\* every append that had returned when the snapshot began, each once, and
\* nothing but appends that had begun when it returned: with no append in
\* between, exactly the n returned ones.
C28_AppendsAndSnapshotsAreAtomic ==
    \A g \in MediaGroupIDs :
        ~Evicted(g) =>
            /\ \A f \in FileIDs :
                  /\ FilesOf(ReturnedAppends(g), f) <= Count(getMediaGroupImages(groups, g), f)
                  /\ Count(getMediaGroupImages(groups, g), f)
                        <= FilesOf(ReturnedAppends(g) \cup InCriticalSection(g), f)
            /\ \A c \in SnapshotsDone(g), f \in FileIDs :
                  /\ FilesOf(callers[c].before, f) <= Count(callers[c].result, f)
                  /\ Count(callers[c].result, f) <= FilesOf(callers[c].after, f)

\* A snapshot that began after two appends to its group had returned, with
\* no other append to the group, after the cleanup goroutine has run a pass.
C28_Witness ==
    \E c \in HandlerCallers :
        /\ c \in SnapshotsDone(callers[c].g)
        /\ ~Evicted(callers[c].g)
        /\ Cardinality(callers[c].before) = 2
        /\ callers[c].after = callers[c].before
        /\ Len(callers[c].result) = 2
        /\ nextSweep > SweepPeriod
        /\ callers[CleanupCaller].pc = "idle"

\* ------------------------------------- properties of a replay's store write
\* The row of task id in a table (the set is empty when the task is absent).
RowOf(rows, id) == {t \in rows : t.ID = id}

\* A step of the scheduler that replayed a task.
ReplayStep == ticks' = ticks + 1 /\ replay'.task # 0

\* A step deletes a task only in a replay of this task whose delivery sent
\* the notice, the preview and the document.
DeleteOnlyAfterDelivery ==
    \A id \in TaskIDs(failed_generations) \ TaskIDs(failed_generations') :
        /\ ReplayStep
        /\ replay'.task = id
        /\ replay'.result = "success"
        /\ replay'.notices = 1 /\ replay'.photos = 1 /\ replay'.docs = 1

\* C29 as stated: a task is deleted only after its delivery, and a replay
\* whose delivery fails leaves the task queued with retryCount raised by 1.
C29_Original ==
    [][/\ DeleteOnlyAfterDelivery
       /\ (ReplayStep /\ replay'.result = "sendErr")
             => \E o \in RowOf(failed_generations, replay'.task) :
                \E t \in RowOf(failed_generations', replay'.task) :
                    t.RetryCount = o.RetryCount + 1]_vars

\* C29: a task is deleted only in a replay that sent the notice, the preview
\* and the document of its result.  A replay whose delivery fails leaves the
\* task queued: with retryCount raised by 1, lastError set to the send error
\* and lastRetryAt set when its UPDATE succeeds, and with the row as it was
\* when the UPDATE fails (the error of the UPDATE is dropped).
C29_DeleteAfterDelivery ==
    [][/\ DeleteOnlyAfterDelivery
       /\ (ReplayStep /\ replay'.result = "sendErr")
             => \E o \in RowOf(failed_generations, replay'.task) :
                \E t \in RowOf(failed_generations', replay'.task) :
                    /\ replay'.docs = 0
                    /\ replay'.wrote
                          => /\ t.RetryCount = o.RetryCount + 1
                             /\ t.LastError = replay'.err
                             /\ t.LastRetryAt.Valid
                    /\ ~replay'.wrote => t = o]_vars

\* A replay whose document send failed after the notice and the preview: the
\* task is queued with the failure recorded.
C29_Witness ==
    /\ replay.result = "sendErr"
    /\ replay.wrote
    /\ replay.notices = 1 /\ replay.photos = 1 /\ replay.docs = 0
    /\ \E t \in RowOf(failed_generations, replay.task) :
          t.RetryCount >= 1 /\ t.LastError = replay.err

\* ------------------------------------ properties of a replay's service
\* The owner of the task of the last replay.
OwnerOf(id) == {t.UserID : t \in RowOf(failed_generations, id)}

\* The service a replay uses: the snapshot of the payload when it carries an
\* API key, else a service resolved for the owner; a failed resolution is
\* tried only for a snapshot without a key, and is followed by no provider
\* call.
ReplayServiceChoice ==
    /\ replay'.snapshot.APIKey # ""
          => /\ replay'.result # "resolveErr"
             /\ replay'.result \in {"downloadErr", "genErr", "sendErr", "success"}
                   => replay'.service = replay'.snapshot
    /\ replay'.snapshot.APIKey = ""
          => /\ replay'.calls = 1
                   => \E u \in OwnerOf(replay'.task) :
                         replay'.service \in ResolvedNow(user_services, u)
             /\ (\A u \in OwnerOf(replay'.task) : ResolvedNow(user_services, u) = {})
                   => replay'.result = "resolveErr"
    /\ replay'.result = "resolveErr"
          => /\ replay'.calls = 0
             /\ ~replay'.http
             /\ replay'.notices + replay'.photos + replay'.docs = 0

TickStep == ticks' = ticks + 1

\* The tasks whose row or whose chat a step touched.
TouchedTasks ==
    {id \in 1..MaxRequests :
        \/ RowOf(failed_generations, id) # RowOf(failed_generations', id)
        \/ sent'[id].notices # sent[id].notices
        \/ sent'[id].photos # sent[id].photos
        \/ sent'[id].docs # sent[id].docs}

\* C31: a tick of the scheduler reads at most one task, touches the row and
\* the chat of no other task, and makes at most one provider call; with no
\* task pending it changes nothing in the store and sends nothing.
C31_OneTaskOneCall ==
    [][TickStep
          => /\ replay'.calls <= 1
             /\ TouchedTasks \subseteq {replay'.task}
             /\ replay'.task # 0 => replay'.task \in TaskIDs(failed_generations)
             /\ replay'.calls = 1 => replay'.task # 0
             /\ failed_generations = {}
                   => /\ failed_generations' = {}
                      /\ nextTaskID' = nextTaskID
                      /\ sent' = sent
                      /\ replay' = NoReplay]_vars

\* Two tasks are queued and a tick has called the provider for one of them:
\* the other one is as it was enqueued.
C31_Witness ==
    /\ Cardinality(failed_generations) = 2
    /\ replay.calls = 1
    /\ replay.result = "genErr"
    /\ \E t \in failed_generations :
          /\ t.ID # replay.task
          /\ t.RetryCount = 0
          /\ sent[t.ID].fails = 0

\* -------------------------------- properties of a replay's failed download
\* C32 as stated: a replay whose download fails makes no provider call and
\* leaves the task queued with retryCount raised by 1.
C32_Original ==
    [][(ReplayStep /\ replay'.result = "downloadErr")
          => /\ replay'.calls = 0
             /\ \E o \in RowOf(failed_generations, replay'.task) :
                \E t \in RowOf(failed_generations', replay'.task) :
                    t.RetryCount = o.RetryCount + 1]_vars

\* C32: a replay whose download of a referenced image fails makes no provider
\* call, sends nothing and leaves the task queued, where a later tick can
\* read it again: with retryCount raised by 1 and lastError set to the
\* download error when its UPDATE succeeds, and with the row as it was when
\* the UPDATE fails (the error of the UPDATE is dropped).
C32_DownloadFailureKeepsTask ==
    [][(ReplayStep /\ replay'.result = "downloadErr")
          => /\ replay'.calls = 0
             /\ ~replay'.http
             /\ replay'.notices + replay'.photos + replay'.docs = 0
             /\ Len(unmarshalPayload(
                      (CHOOSE o \in RowOf(failed_generations, replay'.task) : TRUE).Payload
                    ).ImageFileIDs) > 0
             /\ \E o \in RowOf(failed_generations, replay'.task) :
                \E t \in RowOf(failed_generations', replay'.task) :
                    /\ replay'.wrote
                          => /\ t.RetryCount = o.RetryCount + 1
                             /\ t.LastError = replay'.err
                             /\ t.LastRetryAt.Valid
                    /\ ~replay'.wrote => t = o]_vars

\* A task that failed a replay, was read again by the next tick and failed
\* in the download: both failures are recorded.
C32_Witness ==
    /\ replay.result = "downloadErr"
    /\ replay.wrote
    /\ replay.calls = 0
    /\ \E t \in RowOf(failed_generations, replay.task) :
          /\ t.RetryCount = 2
          /\ t.LastError = replay.err

\* ---------------------------------- properties of a replay's aspect ratio
\* C33: the aspect ratio a replay passes to the provider is the one every
\* live try of the originating request passed; an explicit ratio of the
\* request is passed as it was given.
C33_ReplayKeepsRatio ==
    replay.calls = 1
        => LET rq == reqs[replay.req]
           IN  /\ replay.aspectRatio = rq.aspectRatio
               /\ \A i \in 1..Len(rq.calls) : rq.calls[i].aspectRatio = replay.aspectRatio
               /\ rq.paramRatio # "" => replay.aspectRatio = rq.paramRatio

\* A replay of a request that named the ratio 16:9 and had no image.
C33_Witness ==
    /\ replay.calls = 1
    /\ reqs[replay.req].paramRatio = "16:9"
    /\ reqs[replay.req].images = <<>>
    /\ Len(reqs[replay.req].calls) = RetryBudget
    /\ replay.aspectRatio = "16:9"

\* ------------------------------------------ properties of a cleanup pass
\* A pass of the cleanup goroutine.
SweepStep == nextSweep' = nextSweep + SweepPeriod

\* The first entry of the group is more than 10 minutes old.
OldestExpired(g) == Len(groups[g]) > 0 /\ now - groups[g][1].Timestamp > EvictAge

\* C34: a cleanup pass empties exactly the groups whose first entry is more
\* than 10 minutes old, whatever the age of their later entries, and leaves
\* the entries of every other group as they were.
C34_SweepEvictsByOldest ==
    [][SweepStep
          => \A g \in MediaGroupIDs :
                /\ OldestExpired(g) => groups'[g] = <<>>
                /\ ~OldestExpired(g) => groups'[g] = groups[g]]_vars

\* The pass at minute 15 has emptied a group that had got a second photo and
\* has kept the other group, whose only entry is not older than 10 minutes.
C34_Witness ==
    /\ now = nextSweep - SweepPeriod
    /\ now = EvictAge + SweepPeriod
    /\ appends = 3
    /\ groups["g1"] = <<>>
    /\ Len(groups["g2"]) = 1
    /\ now - groups["g2"][1].Timestamp <= EvictAge
    /\ now - groups["g2"][1].Timestamp >= SweepPeriod

\* ------------------------------------ properties of the snapshot delay
\* The requests that have taken a snapshot of a media group.
GroupReaders ==
    {r \in 1..MaxRequests :
        /\ reqs[r].pc \notin {"idle", "collect"}
        /\ reqs[r].serviceErr = ""
        /\ ReadsGroup(reqs[r])}

\* C35 as stated: a handler that reads the images of a media group from the
\* cache has slept the fixed delay before its snapshot.
C35_Original == \A r \in GroupReaders : reqs[r].slept = SnapshotDelay

\* ------------------------------------ properties of the recorded error
\* The tasks no replay has written to: their lastError is the one of the
\* enqueue.
FreshTasks == {t \in failed_generations : t.RetryCount = 0 /\ ~t.LastRetryAt.Valid}

\* C36 as stated: the lastError of an enqueued task is the error of the 6th
\* try of its request, neither wrapped nor shortened.
C36_Original ==
    \A t \in FreshTasks :
        /\ Len(reqs[t.ReplyTo].calls) = RetryBudget
        /\ t.LastError = reqs[t.ReplyTo].calls[RetryBudget].err

\* C36: the lastError of an enqueued task is the error of the 6th try of its
\* request as truncateError returns it: the error itself when it has at most
\* 200 bytes, else its first 200 bytes followed by the truncation mark.
C36_LastErrorTruncated ==
    \A t \in FreshTasks :
        /\ Len(reqs[t.ReplyTo].calls) = RetryBudget
        /\ reqs[t.ReplyTo].lastErr = reqs[t.ReplyTo].calls[RetryBudget].err
        /\ t.LastError = truncateError(reqs[t.ReplyTo].calls[RetryBudget].err)
        /\ reqs[t.ReplyTo].calls[RetryBudget].err # LongError
              => t.LastError = reqs[t.ReplyTo].calls[RetryBudget].err

\* A task of a request whose first try failed with a short error and whose
\* 6th try failed with a long one: the task holds the long one, cut.
C36_Witness ==
    \E t \in FreshTasks :
        /\ reqs[t.ReplyTo].calls[1].err = "e1"
        /\ reqs[t.ReplyTo].calls[RetryBudget].err = LongError
        /\ t.LastError = truncateError(LongError)
        /\ t.LastError # LongError

\* ------------------------------------ properties of a failed service command
\* The last command failed for the reason the claim names.
DuplicateAdd ==
    /\ probe.fn = "cmdServiceAdd"
    /\ \E s \in UserRows(probe.before, probe.userID) : s.Name = probe.name

ForeignSetDefault ==
    /\ probe.fn = "cmdServiceUse"
    /\ ~\E s \in UserRows(probe.before, probe.userID) : s.ID = probe.serviceID

\* C37: an add of a name the user already has and a set-default of an ID the
\* user does not own return an error, and every service command that returns
\* an error leaves the table, and with it every user's services and default,
\* as it was before the command.
C37_FailedCommandChangesNothing ==
    probe.fn \in {"cmdServiceAdd", "cmdServiceUse"}
        => /\ (DuplicateAdd \/ ForeignSetDefault) => answer[1] # ""
           /\ answer[1] # "" => user_services = probe.before

\* User 1 has two services, the later one the default, and the last command
\* failed: an add of a name user 1 has, or a set-default of the service of
\* user 2.
C37_Witness ==
    /\ DuplicateAdd \/ ForeignSetDefault
    /\ probe.userID = 1
    /\ Cardinality(UserRows(user_services, 1)) = 2
    /\ UserRows(user_services, 2) # {}
    /\ \E s \in DefaultsOf(1) : s.ID = 2
    /\ answer[1] \in {"UNIQUE constraint failed", "sql: no rows in result set"}

\* ------------------------------------------ properties of fair selection
\* Task id is queued and its replay can succeed: its service builds a
\* request URL.
GoodQueued(id) ==
    \E t \in RowOf(failed_generations, id) :
        buildGenerateURL(unmarshalPayload(t.Payload).Service).ok

\* Task id has been delivered by the last tick and is gone from the queue.
DeliveredAndRemoved(id) ==
    /\ replay.task = id
    /\ replay.result = "success"
    /\ replay.notices = 1 /\ replay.photos = 1 /\ replay.docs = 1
    /\ id \notin TaskIDs(failed_generations)

\* C38: under fair selection a queued task whose replay can succeed is
\* eventually delivered and removed, whatever else is queued.
C38_NoStarvation ==
    \A id \in 1..MaxRequests : GoodQueued(id) ~> DeliveredAndRemoved(id)

\* The newer task has been delivered and removed while the older task, whose
\* service builds no URL, has failed MaxRetryCount replays and is queued.
C38_Witness ==
    /\ DeliveredAndRemoved(2)
    /\ \E t \in RowOf(failed_generations, 1) :
          /\ t.RetryCount = MaxRetryCount
          /\ ~buildGenerateURL(unmarshalPayload(t.Payload).Service).ok

\* ------------------------------------ properties of the queued notice
\* C39 as stated: whenever the live path has told the user that an exhausted
\* request was added to the retry queue, a task for that request was stored.
C39_Original ==
    \A r \in 1..MaxRequests :
        (reqs[r].pc = "done" /\ NoticeShown(reqs[r]))
            => /\ reqs[r].enqueued = 1
               /\ ticks = 0 => \E t \in failed_generations : t.ReplyTo = r

\* ----------------------------------------- properties of the default prompt
DefaultPromptsOf(u) == {p \in saved_prompts : p.UserID = u /\ p.IsDefault}

\* No set-default-prompt request is between its two statements.
NoCallbackRunning == \A c \in CallbackIDs : callbacks[c].pc \in {"idle", "done"}

\* C40 as stated: after any interleaving of concurrent set-default-prompt
\* requests of one user, at most one saved prompt of the user is marked
\* default.
C40_Original ==
    NoCallbackRunning => \A u \in Users : Cardinality(DefaultPromptsOf(u)) <= 1

====
